---------------------------- MODULE Spec2Model ----------------------------
(***************************************************************************)
(* Model of the AD3552R dual-channel DAC driver core                       *)
(* (drivers/dac/ad3552r/ad3552r.c): the register transfer engine (plain    *)
(* and CRC-framed), the SPI configuration cache, and the reset/ready       *)
(* state machine.                                                          *)
(*                                                                         *)
(* Every C function is an operator on a machine record                     *)
(*   m = [desc, dev, log, script, err, val, buf, rx, msg, old_keep,        *)
(*        sync, syncErr]                                                   *)
(* desc is the driver descriptor, dev the device's register bytes, log the *)
(* bus exchanges issued so far by the running operation, script the bus    *)
(* responses still to come (the environment's input), err/val/buf the      *)
(* function's return value and out-parameters, rx/msg the receive buffer   *)
(* and the message of the last exchange, old_keep a local of the config    *)
(* sync, sync/syncErr what the config sync did and returned.               *)
(***************************************************************************)
EXTENDS Integers, Sequences, FiniteSets, TLC

VARIABLES
    desc,   \* struct ad3552r_desc: spi_cfg cache, crc_en, reset/ldac pin presence
    dev,    \* device register file, one byte per address
    pc,     \* position of the caller: "idle", "returned", or inside ad3552r_reset
    rst,    \* locals of ad3552r_reset and the history of its status reads
    last    \* what the last operation did: name, arguments, result, bus log

vars == <<desc, dev, pc, rst, last>>

---------------------------------------------------------------------------
(* Protocol constants of ad3552r.c *)

AD3552R_MAX_REG_SIZE == 3
AD3552R_READ_BIT == 128
AD3552R_ADDR_MASK == 127
AD3552R_CRC_ENABLE_VALUE == 66
AD3552R_CRC_DISABLE_VALUE == 3
AD3552R_CRC_POLY == 7
AD3552R_CRC_SEED == 165
AD3552R_SECONDARY_REGION_ADDR == 40
AD3552R_DEFAULT_CONFIG_B_VALUE == 8
RESET_TIMEOUT == 5000

(* Register map of ad3552r.h (the header is not part of the sources at hand) *)

AD3552R_REG_ADDR_INTERFACE_CONFIG_A == 0
AD3552R_MASK_SOFTWARE_RESET == 129
AD3552R_MASK_ADDR_ASCENSION == 32
AD3552R_REG_ADDR_INTERFACE_CONFIG_B == 1
AD3552R_MASK_SINGLE_INST == 128
AD3552R_REG_ADDR_STREAM_MODE == 14
AD3552R_MASK_LENGTH == 255
AD3552R_REG_ADDR_TRANSFER_REGISTER == 15
AD3552R_MASK_STREAM_LENGTH_KEEP_VALUE == 4
AD3552R_REG_ADDR_INTERFACE_CONFIG_C == 16
AD3552R_MASK_CRC_ENABLE == 195
AD3552R_MASK_INTERFACE_NOT_READY == 128
AD3552R_REG_ADDR_HW_LDAC_16B == 40
AD3552R_REG_ADDR_CH_SELECT_16B == 47
AD3552R_REG_ADDR_SW_LDAC_16B == 50
AD3552R_REG_ADDR_HW_LDAC_24B == 55
AD3552R_REG_ADDR_CH_SELECT_24B == 65
AD3552R_REG_ADDR_SW_LDAC_24B == 69
AD3552R_REG_ADDR_MAX == 75
AD3552R_MASK_DAC_12B == 65520
AD3552R_REG_ADDR_PRODUCT_ID_L == 4
AD3552R_REG_ADDR_PRODUCT_ID_H == 5
AD3552R_REG_ADDR_SCRATCH_PAD == 10
AD3552R_INTERNAL_VREF_PIN_FLOATING == 0
AD3552R_INTERNAL_VREF_PIN_2P5V == 1
AD3552R_EXTERNAL_VREF_PIN_INPUT == 2
AD3552R_REG_ADDR_INTERFACE_CONFIG_D == 20
AD3552R_MASK_SDO_DRIVE_STRENGTH == 12
AD3552R_REG_ADDR_SH_REFERENCE_CONFIG == 21
AD3552R_MASK_REFERENCE_VOLTAGE_SEL == 3
AD3552R_REG_ADDR_POWERDOWN_CONFIG == 24
AD3552R_MASK_CH_DAC_POWERDOWN(ch) == 2 ^ (4 + ch)
AD3552R_MASK_CH_AMPLIFIER_POWERDOWN(ch) == 2 ^ ch
AD3552R_REG_ADDR_CH0_CH1_OUTPUT_RANGE == 25
AD3552R_MASK_CH_OUTPUT_RANGE_SEL(ch) == IF ch # 0 THEN 240 ELSE 15
AD3552R_MASK_CH_OFFSET_BITS_0_7 == 255
AD3552R_REG_ADDR_CH_GAIN(ch) == 28 + ch * 2
AD3552R_MASK_CH_RANGE_OVERRIDE == 128
AD3552R_MASK_CH_GAIN_SCALING_N == 96
AD3552R_MASK_CH_GAIN_SCALING_P == 24
AD3552R_MASK_CH_OFFSET_POLARITY == 4
AD3552R_MASK_CH_OFFSET_BIT_8 == 1
AD3552R_MASK_CH(ch) == 2 ^ ch
AD3552R_MASK_ALL_CH == 3
AD3552R_NUM_CH == 2
AD3552R_REG_ADDR_CH_DAC_16B(ch) == 44 - (1 - ch) * 2
AD3552R_REG_ADDR_CH_INPUT_16B(ch) == 54 - (1 - ch) * 2
AD3552R_REG_ADDR_CH_DAC_24B(ch) == 61 - (1 - ch) * 3
AD3552R_REG_ADDR_CH_INPUT_24B(ch) == 75 - (1 - ch) * 3

---------------------------------------------------------------------------
(* Fixed-width arithmetic *)

Byte == 0..255

RECURSIVE BitAnd(_, _)
BitAnd(a, b) ==
    IF a = 0 \/ b = 0 THEN 0
    ELSE (a % 2) * (b % 2) + 2 * BitAnd(a \div 2, b \div 2)

RECURSIVE BitXor(_, _)
BitXor(a, b) ==
    IF a = 0 THEN b
    ELSE IF b = 0 THEN a
    ELSE ((a + b) % 2) + 2 * BitXor(a \div 2, b \div 2)

BitOr(a, b) == a + b - BitAnd(a, b)

(* ~mask within a 16-bit register value *)
BitClear(a, mask) == a - BitAnd(a, mask)

RECURSIVE LowestSetBit(_)
LowestSetBit(mask) ==
    IF mask % 2 = 1 THEN 1 ELSE 2 * LowestSetBit(mask \div 2)

(* util.h: field_prep(mask, val) = (val << ffs(mask)) & mask *)
field_prep(mask, v) == BitAnd(v * LowestSetBit(mask), mask)

(* util.h: field_get(mask, word) = (word & mask) >> ffs(mask) *)
field_get(mask, word) == BitAnd(word, mask) \div LowestSetBit(mask)

(* C's / and % on signed integers: the quotient is truncated towards 0,   *)
(* the remainder has the sign of the dividend                             *)
CAbs(a) == IF a >= 0 THEN a ELSE -a

CRem(a, b) == IF a >= 0 THEN a % CAbs(b) ELSE -((-a) % CAbs(b))

CDiv(a, b) ==
    IF (a >= 0) = (b > 0) THEN CAbs(a) \div CAbs(b)
    ELSE -(CAbs(a) \div CAbs(b))

(* util.h: DIV_ROUND_CLOSEST(x, y) = ((x) + (y) / 2) / (y) *)
DIV_ROUND_CLOSEST(x, y) == CDiv(x + CDiv(y, 2), y)

(* crc8.c: crc8_populate_msb, one table entry: eight MSB-first shift steps *)
RECURSIVE CrcShift(_, _)
CrcShift(t, n) ==
    IF n = 0 THEN t
    ELSE CrcShift(IF t >= 128 THEN BitXor((2 * t) % 256, AD3552R_CRC_POLY)
                  ELSE (2 * t) % 256, n - 1)

crc_table == [b \in Byte |-> CrcShift(b, 8)]

(* crc8.c: crc8(table, pdata, nbytes, crc) *)
RECURSIVE crc8(_, _)
crc8(data, crc) ==
    IF data = <<>> THEN crc
    ELSE crc8(Tail(data), crc_table[BitXor(crc, Head(data))])

---------------------------------------------------------------------------
(* Register Field Map *)

(* _ad3552r_reg_len *)
_ad3552r_reg_len(addr) ==
    IF addr \in {AD3552R_REG_ADDR_HW_LDAC_16B, AD3552R_REG_ADDR_CH_SELECT_16B,
                 AD3552R_REG_ADDR_SW_LDAC_16B, AD3552R_REG_ADDR_HW_LDAC_24B,
                 AD3552R_REG_ADDR_CH_SELECT_24B, AD3552R_REG_ADDR_SW_LDAC_24B}
    THEN 1
    ELSE IF addr > AD3552R_REG_ADDR_HW_LDAC_24B THEN 3
    ELSE IF addr > AD3552R_REG_ADDR_HW_LDAC_16B THEN 2
    ELSE 1

(* addr_mask_map, the private SPI attributes *)
AttrReg(attr) ==
    CASE attr = "ADDR_ASCENSION" -> AD3552R_REG_ADDR_INTERFACE_CONFIG_A
      [] attr = "SINGLE_INST" -> AD3552R_REG_ADDR_INTERFACE_CONFIG_B
      [] attr = "STREAM_MODE" -> AD3552R_REG_ADDR_STREAM_MODE
      [] attr = "STREAM_LENGTH_KEEP_VALUE" -> AD3552R_REG_ADDR_TRANSFER_REGISTER
      [] attr = "CRC_ENABLE" -> AD3552R_REG_ADDR_INTERFACE_CONFIG_C
      [] attr = "SDO_DRIVE_STRENGTH" -> AD3552R_REG_ADDR_INTERFACE_CONFIG_D
      [] attr = "VREF_SELECT" -> AD3552R_REG_ADDR_SH_REFERENCE_CONFIG

AttrMask(attr) ==
    CASE attr = "ADDR_ASCENSION" -> AD3552R_MASK_ADDR_ASCENSION
      [] attr = "SINGLE_INST" -> AD3552R_MASK_SINGLE_INST
      [] attr = "STREAM_MODE" -> AD3552R_MASK_LENGTH
      [] attr = "STREAM_LENGTH_KEEP_VALUE" -> AD3552R_MASK_STREAM_LENGTH_KEEP_VALUE
      [] attr = "CRC_ENABLE" -> AD3552R_MASK_CRC_ENABLE
      [] attr = "SDO_DRIVE_STRENGTH" -> AD3552R_MASK_SDO_DRIVE_STRENGTH
      [] attr = "VREF_SELECT" -> AD3552R_MASK_REFERENCE_VOLTAGE_SEL

(* addr_mask_map_ch: the channel attributes kept in a register field *)
ChMapAttrs ==
    {"CH_DAC_POWERDOWN", "CH_AMPLIFIER_POWERDOWN", "CH_OUTPUT_RANGE_SEL",
     "CH_TRIGGER_SOFTWARE_LDAC", "CH_HW_LDAC_MASK", "CH_SELECT"}

(* AD3552R_CH_ATTR_REG *)
ChAttrReg(attr) ==
    CASE attr = "CH_DAC_POWERDOWN" -> AD3552R_REG_ADDR_POWERDOWN_CONFIG
      [] attr = "CH_AMPLIFIER_POWERDOWN" -> AD3552R_REG_ADDR_POWERDOWN_CONFIG
      [] attr = "CH_OUTPUT_RANGE_SEL" -> AD3552R_REG_ADDR_CH0_CH1_OUTPUT_RANGE
      [] attr = "CH_TRIGGER_SOFTWARE_LDAC" -> AD3552R_REG_ADDR_SW_LDAC_16B
      [] attr = "CH_HW_LDAC_MASK" -> AD3552R_REG_ADDR_HW_LDAC_16B
      [] attr = "CH_SELECT" -> AD3552R_REG_ADDR_CH_SELECT_16B

(* AD3552R_CH_ATTR_MASK, for a channel of the device *)
ChAttrMask(ch, attr) ==
    CASE attr = "CH_DAC_POWERDOWN" -> AD3552R_MASK_CH_DAC_POWERDOWN(ch)
      [] attr = "CH_AMPLIFIER_POWERDOWN"
           -> AD3552R_MASK_CH_AMPLIFIER_POWERDOWN(ch)
      [] attr = "CH_OUTPUT_RANGE_SEL" -> AD3552R_MASK_CH_OUTPUT_RANGE_SEL(ch)
      [] attr = "CH_TRIGGER_SOFTWARE_LDAC" -> AD3552R_MASK_CH(ch)
      [] attr = "CH_HW_LDAC_MASK" -> AD3552R_MASK_CH(ch)
      [] attr = "CH_SELECT" -> AD3552R_MASK_CH(ch)

---------------------------------------------------------------------------
(* Error codes (no-os/error.h), by name *)

SUCCESS == "SUCCESS"
IS_ERR_VALUE(err) == err # SUCCESS

---------------------------------------------------------------------------
(* The device behind the bus: a byte-addressed register file.  It stores   *)
(* what it is sent and answers a read with what it stores; a software or   *)
(* pin reset returns every register to its default.                        *)

(* The register addresses run from 0 to AD3552R_REG_ADDR_MAX, which is the *)
(* address of the last register itself                                    *)
DevAddrs == 0..AD3552R_REG_ADDR_MAX

DevSize == AD3552R_REG_ADDR_MAX + 1

(* The device on the board is an AD3552R: ad3552r_chip_ids[AD3552R_ID] *)
DevProductId == 16393

(* dev[a + 1] is the byte at address a *)
DevDefaults ==
    [k \in 1..DevSize |->
        IF k - 1 = AD3552R_REG_ADDR_INTERFACE_CONFIG_A THEN 16
        ELSE IF k - 1 = AD3552R_REG_ADDR_INTERFACE_CONFIG_B
             THEN AD3552R_DEFAULT_CONFIG_B_VALUE
        ELSE IF k - 1 = AD3552R_REG_ADDR_INTERFACE_CONFIG_C
             THEN AD3552R_CRC_DISABLE_VALUE
        ELSE IF k - 1 = AD3552R_REG_ADDR_PRODUCT_ID_L
             THEN DevProductId % 256
        ELSE IF k - 1 = AD3552R_REG_ADDR_PRODUCT_ID_H
             THEN DevProductId \div 256
        ELSE 0]

DevByte(d, a) == d[a + 1]

(* The device's own address-ascension bit *)
DevAsc(d) ==
    BitAnd(DevByte(d, AD3552R_REG_ADDR_INTERFACE_CONFIG_A),
           AD3552R_MASK_ADDR_ASCENSION) # 0

(* Address of the j-th byte (j = 0, 1, ...) of a burst that starts at addr *)
DevByteAddr(d, addr, j) ==
    IF DevAsc(d) THEN (addr + j) % DevSize
    ELSE (addr - j) % DevSize

DevRead(d, addr, n) ==
    [j \in 1..n |->
        DevByte(d, DevByteAddr(d, addr % DevSize, j - 1))]

(* Store a burst byte by byte, in the direction in force when it starts *)
RECURSIVE DevStore(_, _, _, _, _)
DevStore(d0, d, addr, bytes, j) ==
    IF j > Len(bytes) THEN d
    ELSE DevStore(d0,
                  [d EXCEPT ![DevByteAddr(d0, addr, j - 1) + 1] = bytes[j]],
                  addr, bytes, j + 1)

DevWrite(d, addr, bytes) ==
    LET a0 == addr % DevSize
    IN  IF a0 = AD3552R_REG_ADDR_INTERFACE_CONFIG_A /\ Len(bytes) > 0
           /\ BitAnd(bytes[1], AD3552R_MASK_SOFTWARE_RESET)
                = AD3552R_MASK_SOFTWARE_RESET
        THEN DevDefaults
        ELSE DevStore(d, d, a0, bytes, 1)

---------------------------------------------------------------------------
(* The bus primitive spi_transfer, as the driver sees it.                  *)
(* A response of the script is                                             *)
(*   [err, rd, flipPos, flipMask]                                          *)
(* err: SUCCESS or the bus error; rd: the data bytes a volatile register   *)
(* answers with (<<>>: the stored bytes); flipPos/flipMask: the received   *)
(* byte to corrupt, counted from 1, and the bits flipped (0: none).        *)

OkRsp == [err |-> SUCCESS, rd |-> <<>>, flipPos |-> 0, flipMask |-> 0]

Corrupt(rx, rsp) ==
    [k \in 1..Len(rx) |->
        IF k = rsp.flipPos THEN BitXor(rx[k], rsp.flipMask) ELSE rx[k]]

(* The response to the next exchange: the head of the script *)
BusRsp(m) == IF m.script = <<>> THEN OkRsp ELSE Head(m.script)

(* The data bytes the device answers a read of x.n bytes with *)
BusData(m, x, rsp) ==
    IF Len(rsp.rd) = x.n /\ x.n > 0 THEN rsp.rd
    ELSE IF ~x.decoded THEN [k \in 1..x.n |-> 0]
    ELSE DevRead(m.dev, x.addr, x.n)

(* What the device puts on the line during the exchange x *)
BusSent(x, data) ==
    IF x.framed
    THEN IF x.is_read
         THEN (IF x.first THEN <<0>> ELSE <<>>)
              \o data \o <<crc8(data, x.crc_init)>>
         ELSE x.tx
    ELSE IF x.is_read THEN data ELSE <<>>

BusEntry(m, x, rsp, sent) ==
    [is_read |-> x.is_read, addr |-> x.addr, first |-> x.first,
     n |-> x.n, tx |-> x.tx,
     rx |-> IF rsp.err = SUCCESS THEN Corrupt(sent, rsp) ELSE <<>>,
     sent |-> IF rsp.err = SUCCESS THEN sent ELSE <<>>,
     cs_change |-> x.cs_change, framed |-> x.framed,
     crc_init |-> x.crc_init, err |-> rsp.err,
     asc |-> m.desc.spi_cfg.addr_asc]

BusDone(m, x, entry) ==
    [m EXCEPT !.script = IF m.script = <<>> THEN <<>> ELSE Tail(m.script),
              !.log = Append(m.log, entry),
              !.dev = IF entry.err = SUCCESS /\ ~x.is_read /\ x.decoded
                      THEN DevWrite(m.dev, x.addr, x.data) ELSE m.dev,
              !.err = entry.err,
              !.rx = entry.rx,
              !.msg = x]

(* x: [is_read, addr, first, n, data, tx, cs_change, framed, decoded,      *)
(* crc_init]; decoded: the address of the instruction is one of the        *)
(* device's registers (the device ignores a transfer to any other)         *)
spi_transfer(m, x) ==
    BusDone(m, x,
            BusEntry(m, x, BusRsp(m),
                     BusSent(x, BusData(m, x, BusRsp(m)))))

---------------------------------------------------------------------------
(* Transfer Engine and SPI Config Cache *)

NoMsg == [n |-> 0]

(* What the build makes of undefined behaviour, when the operation runs   *)
(* into it: a trap, or the word found where the code looks                *)
NoUb == [trap |-> FALSE, word |-> 0]

(* gpio_set_value(pin, value): m.gpio keeps the values a pin was set to,   *)
(* each with the number of bus exchanges made before it                   *)
gpio_set_value(m, pin, value) ==
    [m EXCEPT !.gpio = Append(@, [pin |-> pin, value |-> value,
                                  at |-> Len(m.log)])]

(* A machine at the entry of an operation *)
Machine(d, v, script) ==
    [desc |-> d, dev |-> v, log |-> <<>>, script |-> script,
     err |-> SUCCESS, val |-> 0, buf |-> <<>>, rx |-> <<>>,
     msg |-> NoMsg, old_keep |-> 0, sync |-> <<>>, syncErr |-> SUCCESS,
     ub |-> NoUb, gpio |-> <<>>]

NoCfg == [none |-> TRUE]

(* struct ad3552_transfer_data: data is the caller's buffer *)
TransferData(addr, is_read, len, cfg) ==
    [addr |-> addr, is_read |-> is_read, len |-> len, spi_cfg |-> cfg]

put_unaligned_be16(v) == <<(v \div 256) % 256, v % 256>>
get_unaligned_be16(b) == b[1] * 256 + b[2]

(* Bytes i+1..i+n of the caller's buffer *)
BufGet(buf, i, n) == [k \in 1..n |-> buf[i + k]]

(* memcpy(data->data + i, src, n) *)
BufPut(buf, i, src) ==
    [k \in 1..Len(buf) |->
        IF k > i /\ k <= i + Len(src) THEN src[k - i] ELSE buf[k]]

(* A chunk address that would ignore the stream length *)
ChunkAddr_unwrapped(cfg, start, inc) ==
    ((start + inc) % 256) % AD3552R_REG_ADDR_MAX

(* Address of the chunk, lines 357-362: uint8_t arithmetic, then the wrap *)
ChunkAddr(cfg, start, inc) ==
    IF cfg.stream_mode_length # 0
    THEN ((start + CRem(inc, cfg.stream_mode_length)) % 256)
             % AD3552R_REG_ADDR_MAX
    ELSE ((start + inc) % 256) % AD3552R_REG_ADDR_MAX

(* An initial value that would hash the instruction for every chunk *)
CrcInit_hashed(instr, i, addr) == crc8(<<instr>>, AD3552R_CRC_SEED)

(* Lines 367-371: the CRC's initial value for the chunk *)
CrcInit(instr, i, addr) ==
    IF i > 0 THEN addr ELSE crc8(<<instr>>, AD3552R_CRC_SEED)

(* Lines 373-387: the bytes sent for the chunk *)
CrcOut(data, instr, i, payload, crc_init) ==
    IF data.is_read /\ i > 0
    THEN [k \in 1..(Len(payload) + 1) |-> 255]
    ELSE (IF i = 0 THEN <<instr>> ELSE <<>>)
         \o payload \o <<crc8(payload, crc_init)>>

(* Lines 363-390: the message of the chunk at addr, reg_len bytes wide *)
CrcChunk(m, data, instr, i, addr, reg_len) ==
    [is_read |-> data.is_read, addr |-> addr, first |-> (i = 0),
     n |-> reg_len, data |-> BufGet(m.buf, i, reg_len),
     tx |-> CrcOut(data, instr, i, BufGet(m.buf, i, reg_len),
                   CrcInit(instr, i, addr)),
     cs_change |-> ~(i + reg_len = data.len), framed |-> TRUE,
     decoded |-> data.addr \in DevAddrs,
     crc_init |-> CrcInit(instr, i, addr)]

CrcMsg(m, data, instr, i, inc) ==
    CrcChunk(m, data, instr, i,
             ChunkAddr(m.desc.spi_cfg, data.addr, inc),
             _ad3552r_reg_len(ChunkAddr(m.desc.spi_cfg, data.addr, inc)))

(* Lines 397-401: the received data, behind the instruction's byte *)
CrcReadData(r, i) ==
    BufGet(IF i = 0 THEN Tail(r.rx) ELSE r.rx, 0, r.msg.n)

(* Lines 402-403: the received CRC byte *)
CrcReadByte(r, i) == r.rx[r.msg.n + (IF i = 0 THEN 1 ELSE 0) + 1]

(* A read chunk that would be saved without its CRC being compared *)
CrcReadCheck_unchecked(r, i) ==
    [r EXCEPT !.buf = BufPut(r.buf, i, CrcReadData(r, i))]

(* Lines 396-404: save the data of a read chunk, then check its CRC *)
CrcReadCheck(r, i) ==
    IF CrcReadByte(r, i) # crc8(CrcReadData(r, i), r.msg.crc_init)
    THEN [r EXCEPT !.buf = BufPut(r.buf, i, CrcReadData(r, i)),
                   !.err = "EBADMSG"]
    ELSE [r EXCEPT !.buf = BufPut(r.buf, i, CrcReadData(r, i))]

(* Lines 405-408: compare the echoed CRC byte of a write chunk *)
CrcWriteCheck(r, i) ==
    IF r.rx[r.msg.n + (IF i = 0 THEN 1 ELSE 0) + 1]
         # r.msg.tx[r.msg.n + (IF i = 0 THEN 1 ELSE 0) + 1]
    THEN [r EXCEPT !.err = "EBADMSG"]
    ELSE r

(* Lines 391-408: r is the machine after the exchange of the chunk *)
CrcCheck(r, data, i) ==
    IF IS_ERR_VALUE(r.err) THEN r
    ELSE IF data.is_read THEN CrcReadCheck(r, i)
    ELSE CrcWriteCheck(r, i)

(* The do-while loop of _ad3552r_transfer_with_crc, from iteration (i, inc) *)
RECURSIVE CrcLoop(_, _, _, _, _)

(* A loop that would go on to the next chunk after a mismatch *)
CrcNext_continue(c, data, instr, i, inc) ==
    IF IS_ERR_VALUE(c.err) /\ c.err # "EBADMSG" THEN c
    ELSE IF i + c.msg.n < data.len
    THEN CrcLoop(c, data, instr, i + c.msg.n,
                 inc + (IF c.desc.spi_cfg.addr_asc # 0 THEN 1 ELSE -1)
                       * c.msg.n)
    ELSE c

(* Lines 409-413: c is the machine after the chunk's check *)
CrcNext(c, data, instr, i, inc) ==
    IF IS_ERR_VALUE(c.err) THEN c
    ELSE IF i + c.msg.n < data.len
    THEN CrcLoop(c, data, instr, i + c.msg.n,
                 inc + (IF c.desc.spi_cfg.addr_asc # 0 THEN 1 ELSE -1)
                       * c.msg.n)
    ELSE [c EXCEPT !.err = SUCCESS]

CrcLoop(m, data, instr, i, inc) ==
    CrcNext(CrcCheck(spi_transfer(m, CrcMsg(m, data, instr, i, inc)),
                     data, i),
            data, instr, i, inc)

(* _ad3552r_transfer_with_crc *)
_ad3552r_transfer_with_crc(m, data, instr) == CrcLoop(m, data, instr, 0, 0)

(* The instruction byte *)
Instr(data) ==
    BitOr(BitAnd(data.addr, AD3552R_ADDR_MASK),
          IF data.is_read THEN AD3552R_READ_BIT ELSE 0)

(* Lines 435-441: the two messages of the plain path, as one exchange *)
PlainMsg(m, data, instr) ==
    [is_read |-> data.is_read, addr |-> data.addr, first |-> TRUE,
     n |-> data.len, data |-> BufGet(m.buf, 0, data.len),
     tx |-> <<instr>> \o (IF data.is_read THEN <<>>
                          ELSE BufGet(m.buf, 0, data.len)),
     cs_change |-> FALSE, framed |-> FALSE,
     decoded |-> data.addr \in DevAddrs, crc_init |-> 0]

(* msgs[1].rx_buff = data->data: a read lands in the caller's buffer *)
PlainDone(r, data) ==
    IF IS_ERR_VALUE(r.err) \/ ~data.is_read THEN r
    ELSE [r EXCEPT !.buf = BufPut(r.buf, 0, r.rx)]

(* The plain path of ad3552r_transfer: instruction, then data->len bytes *)
PlainTransfer(m, data, instr) ==
    PlainDone(spi_transfer(m, PlainMsg(m, data, instr)), data)

(* ad3552r_transfer from the instruction byte on (lines 429-443): what a   *)
(* transfer without a config override comes to                             *)
TransferBody(m, data) ==
    IF m.desc.crc_en # 0
    THEN _ad3552r_transfer_with_crc(m, data, Instr(data))
    ELSE PlainTransfer(m, data, Instr(data))

(* The memory behind a local buffer, as far as a chunk can reach: the CRC  *)
(* path copies a register's width from the buffer whatever its length     *)
BehindBuff == [k \in 1..AD3552R_MAX_REG_SIZE |-> 170]

(* A layout that would send a 16-bit register's value unmasked *)
WriteRegBuf_unmasked(reg_len, v) ==
    IF reg_len = 1 THEN <<v % 256, 0, 0>>
    ELSE put_unaligned_be16(v) \o <<0>>

(* Lines 465-471: the register value laid out in buf *)
WriteRegBuf(reg_len, v) ==
    IF reg_len = 1 THEN <<v % 256, 0, 0>>
    ELSE IF reg_len = 2
    THEN put_unaligned_be16(BitAnd(v, AD3552R_MASK_DAC_12B)) \o <<0>>
    ELSE put_unaligned_be16(v) \o <<0>>

(* ad3552r_write_reg *)
ad3552r_write_reg(m, addr, v) ==
    IF _ad3552r_reg_len(addr) = 0
       \/ (addr >= AD3552R_SECONDARY_REGION_ADDR
           /\ m.desc.spi_cfg.addr_asc # 0)
    THEN [m EXCEPT !.err = "EINVAL"]
    ELSE TransferBody(
             [m EXCEPT !.buf = WriteRegBuf(_ad3552r_reg_len(addr), v)
                                 \o BehindBuff],
             TransferData(addr, FALSE, _ad3552r_reg_len(addr), NoCfg))

(* Lines 496-504: r is the machine after the read's transfer *)
ReadRegDone(r, reg_len) ==
    IF IS_ERR_VALUE(r.err) THEN r
    ELSE [r EXCEPT !.val = IF reg_len = 1 THEN r.buf[1]
                           ELSE get_unaligned_be16(r.buf)]

(* ad3552r_read_reg *)
ad3552r_read_reg(m, addr) ==
    IF _ad3552r_reg_len(addr) = 0
       \/ (addr >= AD3552R_SECONDARY_REGION_ADDR
           /\ m.desc.spi_cfg.addr_asc # 0)
    THEN [m EXCEPT !.err = "EINVAL"]
    ELSE ReadRegDone(
             TransferBody(
                 [m EXCEPT !.buf = <<0, 0, 0>>],
                 TransferData(addr, TRUE, _ad3552r_reg_len(addr), NoCfg)),
             _ad3552r_reg_len(addr))

(* Line 261 *)
RegFullMask(addr) == (2 ^ (8 * _ad3552r_reg_len(addr)) - 1) % 65536

(* An update that reads the register whatever the mask *)
UpdateRegRead_always(m, addr, mask) == ad3552r_read_reg(m, addr)

(* Lines 262-270: the register is read unless the field covers it *)
UpdateRegRead(m, addr, mask) ==
    IF mask = RegFullMask(addr) THEN [m EXCEPT !.err = SUCCESS]
    ELSE ad3552r_read_reg(m, addr)

(* The field written without the register's other bits *)
UpdateRegWrite_field_only(r, addr, mask, v) ==
    IF IS_ERR_VALUE(r.err) THEN r
    ELSE ad3552r_write_reg(r, addr, field_prep(mask, v) % 65536)

(* Lines 263-272: r is the machine after the read, if there was one *)
UpdateRegWrite(r, addr, mask, v) ==
    IF IS_ERR_VALUE(r.err) THEN r
    ELSE ad3552r_write_reg(r, addr,
             IF mask = RegFullMask(addr) THEN v % 65536
             ELSE BitOr(BitClear(r.val, mask), field_prep(mask, v)) % 65536)

(* _ad3552r_update_reg_field *)
_ad3552r_update_reg_field(m, addr, mask, v) ==
    UpdateRegWrite(UpdateRegRead(m, addr, mask), addr, mask, v)

(* _ad3552r_set_reg_attr *)
_ad3552r_set_reg_attr(m, attr, v) ==
    _ad3552r_update_reg_field(m, AttrReg(attr), AttrMask(attr), v)

(* m.sync keeps which field updates _update_spi_cfg made: r is the machine *)
(* after the update that started at machine m                              *)
SyncNote(m, r, attr) ==
    [r EXCEPT !.sync = Append(m.sync,
                  [attr |-> attr, err |-> r.err,
                   from |-> Len(m.log) + 1, to |-> Len(r.log)])]

(* err = _ad3552r_set_reg_attr(desc, attr, v), if it is made *)
SyncField(m, attr, v, doWrite) ==
    IF doWrite THEN SyncNote(m, _ad3552r_set_reg_attr(m, attr, v), attr)
    ELSE m

(* Lines 290-294 *)
SyncAsc(m, cfg) ==
    IF m.desc.spi_cfg.addr_asc # cfg.addr_asc
    THEN [SyncField(m, "ADDR_ASCENSION", cfg.addr_asc, TRUE)
          EXCEPT !.desc.spi_cfg.addr_asc = cfg.addr_asc]
    ELSE m

(* A sync that would leave the cache alone when the write failed: r is    *)
(* the machine after the field's update                                   *)
SingleUnlessFailed(r, old, new) ==
    [r EXCEPT !.desc.spi_cfg.single_instr =
                  IF IS_ERR_VALUE(r.err) THEN old ELSE new]

SyncSingle_unless_failed(m, cfg) ==
    IF m.desc.spi_cfg.single_instr # cfg.single_instr
    THEN SingleUnlessFailed(
             SyncField(m, "SINGLE_INST", cfg.single_instr, TRUE),
             m.desc.spi_cfg.single_instr, cfg.single_instr)
    ELSE m

(* Lines 295-299 *)
SyncSingle(m, cfg) ==
    IF m.desc.spi_cfg.single_instr # cfg.single_instr
    THEN [SyncField(m, "SINGLE_INST", cfg.single_instr, TRUE)
          EXCEPT !.desc.spi_cfg.single_instr = cfg.single_instr]
    ELSE m

(* Lines 300-308 *)
SyncKeep(m, cfg) ==
    IF m.desc.spi_cfg.stream_length_keep_value # cfg.stream_length_keep_value
    THEN [SyncField(m, "STREAM_LENGTH_KEEP_VALUE",
                    cfg.stream_length_keep_value, TRUE)
          EXCEPT !.old_keep = m.desc.spi_cfg.stream_length_keep_value,
                 !.desc.spi_cfg.stream_length_keep_value =
                     cfg.stream_length_keep_value]
    ELSE [m EXCEPT !.old_keep = m.desc.spi_cfg.stream_length_keep_value]

(* Lines 309-315 *)
SyncLength(m, cfg) ==
    IF m.desc.spi_cfg.stream_mode_length # cfg.stream_mode_length
       \/ m.old_keep = 0
    THEN [SyncField(m, "STREAM_MODE", cfg.stream_mode_length,
                    ~(m.old_keep = 0 /\ cfg.stream_mode_length = 0))
          EXCEPT !.desc.spi_cfg.stream_mode_length = cfg.stream_mode_length]
    ELSE m

(* Line 334: return err *)
SyncReturn(m) == [m EXCEPT !.syncErr = m.err]

(* _update_spi_cfg *)
_update_spi_cfg(m, cfg) ==
    SyncReturn(
        SyncLength(
            SyncKeep(
                SyncSingle(
                    SyncAsc([m EXCEPT !.err = SUCCESS], cfg),
                    cfg),
                cfg),
            cfg))

(* Lines 426-427: the config override is synchronised first, and what the  *)
(* synchronisation returns is dropped                                      *)
TransferSync(m, data) ==
    IF data.spi_cfg # NoCfg
    THEN [_update_spi_cfg(m, data.spi_cfg) EXCEPT !.buf = m.buf]
    ELSE m

(* ad3552r_transfer; the caller's buffer is m.buf *)
ad3552r_transfer(m, data) == TransferBody(TransferSync(m, data), data)

(* The mode switched whatever became of the write *)
SetCrcDone_unchecked(r, en) == [r EXCEPT !.desc.crc_en = en]

(* Lines 536-540: r is the machine after the write *)
SetCrcDone(r, en) ==
    IF IS_ERR_VALUE(r.err) THEN r
    ELSE [r EXCEPT !.desc.crc_en = en, !.err = SUCCESS]

(* _ad3552r_set_crc_enable *)
_ad3552r_set_crc_enable(m, en) ==
    SetCrcDone(
        ad3552r_write_reg(m, AttrReg("CRC_ENABLE"),
                          IF en # 0 THEN AD3552R_CRC_ENABLE_VALUE
                          ELSE AD3552R_CRC_DISABLE_VALUE),
        en)

---------------------------------------------------------------------------
(* Reset/Ready State Machine: ad3552r_reset, one step per loop iteration    *)

(* Lines 1180-1191: pulse the reset pin, or set the software-reset field *)
reset_begin(m) ==
    IF m.desc.reset
    THEN [m EXCEPT !.dev = DevDefaults, !.err = SUCCESS]
    ELSE _ad3552r_update_reg_field(m, AD3552R_REG_ADDR_INTERFACE_CONFIG_A,
                                   AD3552R_MASK_SOFTWARE_RESET,
                                   AD3552R_MASK_SOFTWARE_RESET)

(* A loop that would take any ready read for the end of the reset *)
reset_break_unordered(loc, val) ==
    BitAnd(val, AD3552R_MASK_INTERFACE_NOT_READY) = 0

(* Lines 1201-1206: the loop breaks on a ready read after the default *)
reset_break(loc, val) ==
    loc.first_check # 0
    /\ BitAnd(val, AD3552R_MASK_INTERFACE_NOT_READY) = 0

(* Lines 1201-1203 *)
reset_first_check(loc, val) ==
    IF loc.first_check = 0 /\ val = AD3552R_DEFAULT_CONFIG_B_VALUE
    THEN 1 ELSE loc.first_check

(* A budget that would run out one iteration early *)
reset_expired_early(loc) == loc.timeout - 2 = 0

(* Lines 1208-1209: --timeout; if (timeout == 0) *)
reset_expired(loc) == loc.timeout - 1 = 0

(* Lines 1194-1211, one iteration: loc = [first_check, timeout], r the     *)
(* machine after the status read; the answer's next is "poll" (loop        *)
(* again), "break" or "return"                                             *)
reset_poll(loc, r) ==
    IF IS_ERR_VALUE(r.err)
    THEN [first_check |-> loc.first_check, timeout |-> loc.timeout,
          next |-> "return", err |-> r.err]
    ELSE IF reset_break(loc, r.val)
    THEN [first_check |-> loc.first_check, timeout |-> loc.timeout,
          next |-> "break", err |-> SUCCESS]
    ELSE IF reset_expired(loc)
    THEN [first_check |-> reset_first_check(loc, r.val),
          timeout |-> loc.timeout - 1,
          next |-> "return", err |-> "EIO"]
    ELSE [first_check |-> reset_first_check(loc, r.val),
          timeout |-> loc.timeout - 1,
          next |-> "poll", err |-> SUCCESS]

(* Lines 1213-1217: force the address-ascension field to descending *)
reset_end(m) == _ad3552r_set_reg_attr(m, "ADDR_ASCENSION", 0)


---------------------------------------------------------------------------
(* Calibration Engine *)

(* ad3542r_ch_ranges and ad3552r_ch_ranges: <<Vmin, Vmax>> in mV, by the   *)
(* range selector counted from 0                                           *)
ad3542r_ch_ranges ==
    <<<<0, 2500>>, <<0, 3000>>, <<0, 5000>>, <<0, 10000>>,
      <<-2500, 7500>>, <<-5000, 5000>>>>

ad3552r_ch_ranges ==
    <<<<0, 2500>>, <<0, 5000>>, <<0, 10000>>, <<-5000, 5000>>,
      <<-10000, 10000>>>>

(* gains_scaling_table, by the gain-scaling code counted from 0 *)
gains_scaling_table == <<1000, 500, 250, 125>>

AD3552R_GAIN_SCALE == 1000

(* AD3552R_RANGE_MAX_VALUE(id) *)
AD3552R_RANGE_MAX_VALUE(id) == IF id = "AD3542R_ID" THEN 5 ELSE 4

(* The channel data of a calloc'ed descriptor *)
ZeroCh ==
    [fast_en |-> 0, rfb |-> 0, range |-> 0, range_override |-> 0,
     offset |-> 0, offset_polarity |-> 0, gain_offset |-> 0,
     p |-> 0, n |-> 0,
     scale_int |-> 0, scale_dec |-> 0, offset_int |-> 0, offset_dec |-> 0]

(* a * b / d as the code computes it in int64_t, the division truncating.  *)
(* The product is built by doubling, as quotient and remainder by d, so    *)
(* that no intermediate value leaves the integers of the checker.          *)
(* h: <<quotient, remainder>> of some x by d; the pair of 2 * x            *)
MulDivDouble(h, d) == <<(2 * h[1]) + ((2 * h[2]) \div d), (2 * h[2]) % d>>

(* the pair of x + a *)
MulDivAdd(h, a, d) ==
    <<h[1] + (a \div d) + ((h[2] + (a % d)) \div d), (h[2] + (a % d)) % d>>

(* <<quotient, remainder>> of a * b by d, for a, b >= 0 and d > 0 *)
RECURSIVE MulDivQR(_, _, _)
MulDivQR(a, b, d) ==
    IF b = 0 THEN <<0, 0>>
    ELSE IF b % 2 = 1
    THEN MulDivAdd(MulDivDouble(MulDivQR(a, b \div 2, d), d), a, d)
    ELSE MulDivDouble(MulDivQR(a, b \div 2, d), d)

MulDiv(a, b, d) ==
    IF (a >= 0) = ((b >= 0) = (d > 0))
    THEN MulDivQR(CAbs(a), CAbs(b), CAbs(d))[1]
    ELSE -MulDivQR(CAbs(a), CAbs(b), CAbs(d))[1]

(* ad3552r_get_custom_range: <<v_min, v_max>> of channel data c *)
ad3552r_get_custom_range(c) ==
    <<2500 - MulDiv(1024 * gains_scaling_table[c.p + 1]
                    - AD3552R_GAIN_SCALE * c.gain_offset,
                    2575 * c.rfb, 1024 * AD3552R_GAIN_SCALE),
      2500 + MulDiv(1024 * gains_scaling_table[c.n + 1]
                    + AD3552R_GAIN_SCALE * c.gain_offset,
                    2575 * c.rfb, 1024 * AD3552R_GAIN_SCALE)>>

(* Lines 673-685: <<v_min, v_max>> the scale and offset are derived from *)
CalcRange(id, c) ==
    IF c.range_override # 0 THEN ad3552r_get_custom_range(c)
    ELSE IF id = "AD3542R_ID" THEN ad3542r_ch_ranges[c.range + 1]
    ELSE ad3552r_ch_ranges[c.range + 1]

(* The fraction of the scale truncated, as that of the offset is *)
CalcStore_scale_truncated(c, v_min, span) ==
    [c EXCEPT !.scale_int = CDiv(span, 65536),
              !.scale_dec = CDiv(CRem(span, 65536) * 15625, 1024),
              !.offset_int = CDiv(v_min * 65536, span),
              !.offset_dec = MulDiv(CRem(v_min * 65536, span), 1000000,
                                    span)]

(* Lines 697-706, for a span that is not 0.  In scale_dec the product      *)
(* rem * 1000000 and the divisor 65536 are both divided by 64, which       *)
(* leaves DIV_ROUND_CLOSEST's result as it is: (64x + 64y / 2) / 64y =     *)
(* (x + y / 2) / y.                                                        *)
CalcStore(c, v_min, span) ==
    [c EXCEPT !.scale_int = CDiv(span, 65536),
              !.scale_dec = DIV_ROUND_CLOSEST(CRem(span, 65536) * 15625,
                                              1024),
              !.offset_int = CDiv(v_min * 65536, span),
              !.offset_dec = MulDiv(CRem(v_min * 65536, span), 1000000,
                                    span)]

(* Lines 697-706 with a span of 0: the scale is stored, then tmp % span    *)
(* divides by zero, which is undefined; ub is what the build makes of it:  *)
(* a trap (the call never returns), or values left in the offset           *)
CalcDivZero(m, ch, ub) ==
    IF ub.trap
    THEN [m EXCEPT !.desc.ch_data[ch].scale_int = 0,
                   !.desc.ch_data[ch].scale_dec = 0,
                   !.err = "TRAP"]
    ELSE [m EXCEPT !.desc.ch_data[ch].scale_int = 0,
                   !.desc.ch_data[ch].scale_dec = 0,
                   !.desc.ch_data[ch].offset_int = ub.word,
                   !.desc.ch_data[ch].offset_dec = ub.word]

(* The rest of ad3552r_calc_gain_and_offset, the range being rg *)
CalcWith(m, ch, rg) ==
    IF rg[2] - rg[1] = 0 THEN CalcDivZero(m, ch, m.ub)
    ELSE [m EXCEPT !.desc.ch_data[ch] =
                       CalcStore(m.desc.ch_data[ch], rg[1], rg[2] - rg[1])]

(* The channels the descriptor has data for: ch_data[AD3552R_NUM_CH] *)
Channels == 0..(AD3552R_NUM_CH - 1)

(* desc->ch_data[ch].f = v; with ch outside the array the store lands in   *)
(* memory that is not the channel's, which overrun records                 *)
ChPut(m, ch, f, v) ==
    IF ch \in Channels THEN [m EXCEPT !.desc.ch_data[ch][f] = v]
    ELSE [m EXCEPT !.desc.overrun = TRUE]

(* desc->ch_data[ch].f; with ch outside the array, the word found there *)
ChGet(m, ch, f) ==
    IF ch \in Channels THEN m.desc.ch_data[ch][f] ELSE m.ub.word

(* AD3552R_CH_ATTR_MASK(ch, attr); with ch outside the row, the word found *)
(* behind it                                                               *)
ChAttrMaskAt(m, ch, attr) ==
    IF ch \in Channels THEN ChAttrMask(ch, attr) ELSE m.ub.word

(* ad3552r_calc_gain_and_offset *)
ad3552r_calc_gain_and_offset(m, ch) ==
    IF ch \in Channels
    THEN CalcWith(m, ch, CalcRange(m.desc.chip_id, m.desc.ch_data[ch]))
    ELSE [m EXCEPT !.desc.overrun = TRUE]

(* return SUCCESS after the recomputation, if it came back *)
CalcReturn(c) == IF c.err = "TRAP" THEN c ELSE [c EXCEPT !.err = SUCCESS]

---------------------------------------------------------------------------
(* Device and channel attributes *)

(* _ad3552r_get_reg_attr: r is the machine after the read *)
GetRegAttrDone(r, mask) == [r EXCEPT !.val = field_get(mask, r.val)]

_ad3552r_get_reg_attr(m, attr) ==
    GetRegAttrDone(ad3552r_read_reg(m, AttrReg(attr)), AttrMask(attr))

(* _ad3552r_get_crc_enable: r is the machine after the attribute's read *)
GetCrcDone(r) ==
    IF IS_ERR_VALUE(r.err) THEN r
    ELSE IF r.val = AD3552R_CRC_ENABLE_VALUE THEN [r EXCEPT !.val = 1]
    ELSE IF r.val = AD3552R_CRC_DISABLE_VALUE THEN [r EXCEPT !.val = 0]
    ELSE [r EXCEPT !.err = "FAILURE"]

_ad3552r_get_crc_enable(m) ==
    GetCrcDone(_ad3552r_get_reg_attr(m, "CRC_ENABLE"))

(* ad3552r_get_dev_value; h: the handle is not null *)
ad3552r_get_dev_value(m, h, attr) ==
    IF ~h THEN [m EXCEPT !.err = "EINVAL"]
    ELSE IF attr = "CRC_ENABLE" THEN _ad3552r_get_crc_enable(m)
    ELSE _ad3552r_get_reg_attr(m, attr)

(* ad3552r_set_dev_value *)
ad3552r_set_dev_value(m, h, attr, v) ==
    IF ~h THEN [m EXCEPT !.err = "EINVAL"]
    ELSE IF attr = "CRC_ENABLE" THEN _ad3552r_set_crc_enable(m, v)
    ELSE _ad3552r_set_reg_attr(m, attr, v)

(* _get_code_reg_addr; ch is a uint8_t, 1 - ch an int *)
_get_code_reg_addr(ch, is_dac, is_fast) ==
    IF is_dac # 0
    THEN (IF is_fast # 0 THEN AD3552R_REG_ADDR_CH_DAC_16B(ch)
          ELSE AD3552R_REG_ADDR_CH_DAC_24B(ch))
    ELSE (IF is_fast # 0 THEN AD3552R_REG_ADDR_CH_INPUT_16B(ch)
          ELSE AD3552R_REG_ADDR_CH_INPUT_24B(ch))

(* _ad3552r_set_code_value *)
_ad3552r_set_code_value(m, ch, v) ==
    ad3552r_write_reg(m, _get_code_reg_addr(ch, 1, 0) % 256,
                      IF ChGet(m, ch, "fast_en") # 0
                      THEN BitAnd(v, AD3552R_MASK_DAC_12B) ELSE v)

(* _ad3552r_get_code_value *)
_ad3552r_get_code_value(m, ch) ==
    ad3552r_read_reg(m, _get_code_reg_addr(ch, 1, 0) % 256)

(* The attributes kept in the channel's gain register *)
GainAttrs ==
    {"CH_RANGE_OVERRIDE", "CH_GAIN_OFFSET", "CH_GAIN_OFFSET_POLARITY",
     "CH_GAIN_SCALING_P", "CH_GAIN_SCALING_N"}

GainMask(attr) ==
    CASE attr = "CH_RANGE_OVERRIDE" -> AD3552R_MASK_CH_RANGE_OVERRIDE
      [] attr = "CH_GAIN_OFFSET" -> AD3552R_MASK_CH_OFFSET_BIT_8
      [] attr = "CH_GAIN_OFFSET_POLARITY" -> AD3552R_MASK_CH_OFFSET_POLARITY
      [] attr = "CH_GAIN_SCALING_P" -> AD3552R_MASK_CH_GAIN_SCALING_P
      [] attr = "CH_GAIN_SCALING_N" -> AD3552R_MASK_CH_GAIN_SCALING_N

(* Lines 758-762: w is the machine after the write of the gain register *)
GainDone(w, ch) ==
    IF IS_ERR_VALUE(w.err) THEN w
    ELSE CalcReturn(ad3552r_calc_gain_and_offset(w, ch))

(* Lines 754-762: s is the machine after the switch, reg the register read *)
GainWrite(s, attr, ch, v, reg) ==
    IF IS_ERR_VALUE(s.err) THEN s
    ELSE GainDone(
             ad3552r_write_reg(s, AD3552R_REG_ADDR_CH_GAIN(ch),
                 BitOr(BitClear(reg, GainMask(attr)),
                       field_prep(GainMask(attr), v)) % 65536),
             ch)

(* Lines 722-726: the low byte of the gain offset is written to the       *)
(* address AD3552R_MASK_CH_OFFSET_BITS_0_7                                *)
GainOffsetLow(m, ch, v) ==
    ad3552r_write_reg(ChPut(m, ch, "offset", v),
                      AD3552R_MASK_CH_OFFSET_BITS_0_7,
                      BitAnd(v, AD3552R_MASK_CH_OFFSET_BITS_0_7))

(* Lines 721-753: the switch of _ad3552r_set_gain_value *)
GainSwitch(m, attr, ch, v) ==
    CASE attr = "CH_GAIN_OFFSET" -> GainOffsetLow(m, ch, v)
      [] attr = "CH_RANGE_OVERRIDE"
           -> ChPut(m, ch, "range_override", IF v # 0 THEN 1 ELSE 0)
      [] attr = "CH_GAIN_OFFSET_POLARITY"
           -> ChPut(m, ch, "offset_polarity", IF v # 0 THEN 1 ELSE 0)
      [] attr = "CH_GAIN_SCALING_P"
           -> IF v > 3 THEN [m EXCEPT !.err = "EINVAL"]
              ELSE ChPut(m, ch, "p", v)
      [] attr = "CH_GAIN_SCALING_N"
           -> IF v > 3 THEN [m EXCEPT !.err = "EINVAL"]
              ELSE ChPut(m, ch, "n", v)

(* r is the machine after the read of the gain register *)
GainSet(r, attr, ch, v) ==
    IF IS_ERR_VALUE(r.err) THEN r
    ELSE GainWrite(GainSwitch(r, attr, ch, v), attr, ch,
                   IF attr = "CH_GAIN_OFFSET" THEN v \div 256 ELSE v,
                   r.val)

(* _ad3552r_set_gain_value *)
_ad3552r_set_gain_value(m, attr, ch, v) ==
    GainSet(ad3552r_read_reg(m, AD3552R_REG_ADDR_CH_GAIN(ch)), attr, ch, v)

(* Lines 782-790: r2 is the machine after the second read, reg the first   *)
(* register value                                                          *)
GainOffsetGot(r2, reg) ==
    IF IS_ERR_VALUE(r2.err) THEN [r2 EXCEPT !.val = reg]
    ELSE [r2 EXCEPT !.val =
              BitOr(reg, BitAnd(r2.val, AD3552R_MASK_CH_OFFSET_BIT_8) * 256)]

(* r is the machine after the read of the gain register *)
GainGot(r, attr, ch) ==
    IF IS_ERR_VALUE(r.err) THEN r
    ELSE IF attr = "CH_GAIN_OFFSET"
    THEN GainOffsetGot(ad3552r_read_reg(r, AD3552R_REG_ADDR_CH_GAIN(ch)),
                       r.val)
    ELSE [r EXCEPT !.val = field_get(GainMask(attr), r.val)]

(* _ad3552r_get_gain_value *)
_ad3552r_get_gain_value(m, attr, ch) ==
    GainGot(ad3552r_read_reg(m, AD3552R_REG_ADDR_CH_GAIN(ch)), attr, ch)

(* Lines 846-851: r is the machine after the read of the attribute's       *)
(* register                                                                *)
ChValueGot(r, mask) ==
    IF IS_ERR_VALUE(r.err) THEN r
    ELSE [r EXCEPT !.val = field_get(mask, r.val)]

(* ad3552r_get_ch_value; h: the handle is not null *)
ad3552r_get_ch_value(m, h, attr, ch) ==
    IF ~h THEN [m EXCEPT !.err = "EINVAL"]
    ELSE IF attr = "CH_FAST_EN"
    THEN [m EXCEPT !.val = ChGet(m, ch, "fast_en")]
    ELSE IF attr = "CH_CODE" THEN _ad3552r_get_code_value(m, ch)
    ELSE IF attr = "CH_RFB" THEN [m EXCEPT !.val = ChGet(m, ch, "rfb")]
    ELSE IF attr \in GainAttrs THEN _ad3552r_get_gain_value(m, attr, ch)
    ELSE IF ChAttrReg(attr) \in {AD3552R_REG_ADDR_SW_LDAC_24B,
                                 AD3552R_REG_ADDR_SW_LDAC_16B}
    THEN [m EXCEPT !.err = "EINVAL"]
    ELSE ChValueGot(ad3552r_read_reg(m, ChAttrReg(attr)),
                    ChAttrMaskAt(m, ch, attr))

(* Lines 889-896: u is the machine after the update of the register field *)
ChValueSet(u, attr, ch, v) ==
    IF IS_ERR_VALUE(u.err) \/ attr # "CH_OUTPUT_RANGE_SEL" THEN u
    ELSE [ad3552r_calc_gain_and_offset(
              ChPut(u, ch, "range",
                    v % (AD3552R_RANGE_MAX_VALUE(u.desc.chip_id) + 1)),
              ch)
          EXCEPT !.err = IF @ = "TRAP" THEN @ ELSE u.err]

(* ad3552r_set_ch_value *)
ad3552r_set_ch_value(m, h, attr, ch, v) ==
    IF ~h THEN [m EXCEPT !.err = "EINVAL"]
    ELSE IF attr = "CH_FAST_EN"
    THEN ChPut(m, ch, "fast_en", IF v # 0 THEN 1 ELSE 0)
    ELSE IF attr = "CH_CODE" THEN _ad3552r_set_code_value(m, ch, v)
    ELSE IF attr = "CH_RFB"
    THEN CalcReturn(ad3552r_calc_gain_and_offset(ChPut(m, ch, "rfb", v), ch))
    ELSE IF attr \in GainAttrs THEN _ad3552r_set_gain_value(m, attr, ch, v)
    ELSE ChValueSet(
             _ad3552r_update_reg_field(m, ChAttrReg(attr),
                                       ChAttrMaskAt(m, ch, attr), v),
             attr, ch, v)

---------------------------------------------------------------------------
(* Sample writes *)

(* enum ad3552r_write_mode *)
WriteModes ==
    {"AD3552R_WRITE_DAC_REGS", "AD3552R_WRITE_INPUT_REGS",
     "AD3552R_WRITE_INPUT_REGS_AND_TRIGGER_LDAC"}

(* ad3552r_ldac_trigger: without an LDAC pin the software LDAC register is *)
(* written; with one the pin is pulsed, which makes no bus exchange        *)
ad3552r_ldac_trigger(m, mask) ==
    IF ~m.desc.ldac
    THEN ad3552r_write_reg(m, AD3552R_REG_ADDR_SW_LDAC_24B, mask)
    ELSE [gpio_set_value(gpio_set_value(m, "ldac", "GPIO_LOW"),
                         "ldac", "GPIO_HIGH")
          EXCEPT !.err = SUCCESS]

(* uint8_t buff[AD3552R_NUM_CH * AD3552R_MAX_REG_SIZE + 1] = {0} *)
ZeroBuff == [k \in 1..(AD3552R_NUM_CH * AD3552R_MAX_REG_SIZE + 1) |-> 0]

(* buff[i] &= 0xF0 *)
AndF0(buf, i) == [buf EXCEPT ![i + 1] = BitAnd(@, 240)]

(* Lines 1243-1248: data[0] laid out; b is [buf, len] *)
WriteAllFirst(d0, is_fast) ==
    IF is_fast # 0
    THEN [buf |-> AndF0(BufPut(ZeroBuff, 0, put_unaligned_be16(d0)), 1),
          len |-> 2]
    ELSE [buf |-> BufPut(ZeroBuff, 0, put_unaligned_be16(d0)), len |-> 3]

(* Lines 1250-1255: data[1] laid out at len; len += 2; then                *)
(* buff[len + 1] &= 0xF0 in fast mode, ++len otherwise                     *)
WriteAllSecond(b, d1, is_fast) ==
    IF is_fast # 0
    THEN [buf |-> AndF0(BufPut(b.buf, b.len, put_unaligned_be16(d1)),
                        (b.len + 2) + 1),
          len |-> b.len + 2]
    ELSE [buf |-> BufPut(b.buf, b.len, put_unaligned_be16(d1)),
          len |-> b.len + 3]

(* Lines 1257-1259: the software LDAC mask behind the codes *)
WriteAllLdac(b, mode, ldac) ==
    IF mode = "AD3552R_WRITE_INPUT_REGS_AND_TRIGGER_LDAC" /\ ~ldac
    THEN [buf |-> [b.buf EXCEPT ![b.len + 1] = AD3552R_MASK_ALL_CH],
          len |-> b.len + 1]
    ELSE b

(* Lines 1266-1273: r is the machine after the transfer *)
WriteAllSent(r, mode) ==
    IF IS_ERR_VALUE(r.err) THEN r
    ELSE IF mode = "AD3552R_WRITE_INPUT_REGS_AND_TRIGGER_LDAC"
    THEN ad3552r_ldac_trigger(r, AD3552R_MASK_ALL_CH)
    ELSE [r EXCEPT !.err = SUCCESS]

(* Lines 1261-1273: the transfer of buffer b *)
WriteAllWith(m, b, mode, is_fast) ==
    WriteAllSent(
        ad3552r_transfer(
            [m EXCEPT !.buf = b.buf \o BehindBuff],
            TransferData(
                _get_code_reg_addr(
                    1, IF mode = "AD3552R_WRITE_DAC_REGS" THEN 1 ELSE 0,
                    is_fast),
                FALSE, b.len, NoCfg)),
        mode)

(* ad3552r_write_all_channels; d0, d1: data[0], data[1] *)
ad3552r_write_all_channels(m, d0, d1, mode) ==
    WriteAllWith(m,
                 WriteAllLdac(
                     WriteAllSecond(
                         WriteAllFirst(d0, m.desc.ch_data[0].fast_en),
                         d1, m.desc.ch_data[0].fast_en),
                     mode, m.desc.ldac),
                 mode, m.desc.ch_data[0].fast_en)

(* util.h: find_first_set_bit, for a word that is not 0 *)
RECURSIVE find_first_set_bit(_)
find_first_set_bit(word) ==
    IF word % 2 = 1 THEN 0 ELSE 1 + find_first_set_bit(word \div 2)

(* Lines 1295-1302: the loop over the samples of both channels, from       *)
(* sample i                                                                *)
RECURSIVE WriteAllLoop(_, _, _, _, _)
WriteAllNext(r, data, i, samples, mode) ==
    IF IS_ERR_VALUE(r.err) THEN r
    ELSE WriteAllLoop(r, data, i + 1, samples, mode)

WriteAllLoop(m, data, i, samples, mode) ==
    IF i >= samples THEN [m EXCEPT !.err = SUCCESS]
    ELSE WriteAllNext(
             ad3552r_write_all_channels(m, data[2 * i + 1], data[2 * i + 2],
                                        mode),
             data, i, samples, mode)

(* Lines 1308-1318: the loop over the samples of one channel, from         *)
(* sample i                                                                *)
RECURSIVE WriteOneLoop(_, _, _, _, _, _, _)
WriteOneTriggered(t, data, i, samples, addr, mode, ch_mask) ==
    IF IS_ERR_VALUE(t.err) THEN t
    ELSE WriteOneLoop(t, data, i + 1, samples, addr, mode, ch_mask)

WriteOneWritten(w, data, i, samples, addr, mode, ch_mask) ==
    IF IS_ERR_VALUE(w.err) THEN w
    ELSE IF mode = "AD3552R_WRITE_INPUT_REGS_AND_TRIGGER_LDAC"
    THEN WriteOneTriggered(ad3552r_ldac_trigger(w, ch_mask),
                           data, i, samples, addr, mode, ch_mask)
    ELSE WriteOneLoop(w, data, i + 1, samples, addr, mode, ch_mask)

WriteOneLoop(m, data, i, samples, addr, mode, ch_mask) ==
    IF i >= samples THEN [m EXCEPT !.err = SUCCESS]
    ELSE WriteOneWritten(ad3552r_write_reg(m, addr, data[i + 1]),
                         data, i, samples, addr, mode, ch_mask)

(* ad3552r_write_samples; ch_mask is not 0 *)
ad3552r_write_samples(m, data, samples, ch_mask, mode) ==
    IF ch_mask = AD3552R_MASK_ALL_CH
       /\ m.desc.ch_data[0].fast_en # m.desc.ch_data[0].fast_en
    THEN [m EXCEPT !.err = "EINVAL"]
    ELSE IF ch_mask = AD3552R_MASK_ALL_CH
    THEN WriteAllLoop(m, data, 0, samples, mode)
    ELSE WriteOneLoop(
             m, data, 0, samples,
             _get_code_reg_addr(
                 find_first_set_bit(ch_mask),
                 IF mode = "AD3552R_WRITE_DAC_REGS" THEN 1 ELSE 0,
                 m.desc.ch_data[find_first_set_bit(ch_mask)].fast_en),
             mode, ch_mask)
---------------------------------------------------------------------------
(* Bounds of the model *)

MaxFaultPos == 2     \* a scripted bus fault hits exchange 1..MaxFaultPos of a step

(* What a status read may answer during reset: the post-reset default,     *)
(* ready but not the default, not ready                                    *)
PollVals == {AD3552R_DEFAULT_CONFIG_B_VALUE, 0, AD3552R_MASK_INTERFACE_NOT_READY}

(* The bus error scripted during a reset *)
ResetBusErrs == {"EBUSY"}

(* The bus responses to one status read: a value, or a bus error *)
PollRsps ==
    {[OkRsp EXCEPT !.rd = <<v>>] : v \in PollVals}
    \cup {[OkRsp EXCEPT !.err = e] : e \in ResetBusErrs}

---------------------------------------------------------------------------
(* What the bus log shows, read off the exchanges alone *)

EntryFaulty(e) == e.err # SUCCESS \/ e.rx # e.sent

EntryData(e) ==
    IF e.framed /\ e.first THEN BufGet(Tail(e.rx), 0, e.n) ELSE BufGet(e.rx, 0, e.n)

LogFaulty(log) == \E k \in 1..Len(log) : EntryFaulty(log[k])

(* A script whose exchange f (0: none) fails with bus error e *)
FaultScript(f, e) ==
    [k \in 1..f |-> IF k = f THEN [OkRsp EXCEPT !.err = e] ELSE OkRsp]

---------------------------------------------------------------------------
(* State *)

ZeroCfg ==
    [addr_asc |-> 0, single_instr |-> 0, stream_mode_length |-> 0,
     stream_length_keep_value |-> 0]

(* The descriptor as ad3552r_init allocates it (calloc), pins looked up *)
InitDesc(pin) ==
    [spi_cfg |-> ZeroCfg, crc_en |-> 0, reset |-> pin, ldac |-> FALSE,
     chip_id |-> "AD3552R_ID", ch_data |-> [ch \in Channels |-> ZeroCh],
     overrun |-> FALSE]

RstIdle ==
    [first_check |-> 0, timeout |-> 0, err |-> SUCCESS,
     reads |-> 0, seen |-> FALSE, lastReady |-> FALSE, everReady |-> FALSE,
     fault |-> FALSE, tail |-> 0, asc0 |-> 0]

NoOp == [op |-> "none", err |-> SUCCESS, log |-> <<>>]

(* After ad3552r_init on a board with (pin) or without a reset pin *)
InitPin(pin) ==
    /\ desc = InitDesc(pin)
    /\ dev = DevDefaults
    /\ pc = "idle"
    /\ rst = RstIdle
    /\ last = NoOp

Init == \E pin \in BOOLEAN : InitPin(pin)


---------------------------------------------------------------------------
(* ad3552r_reset and ad3552r_init as whole calls *)

AD3552R_SCRATCH_PAD_TEST_VAL1 == 52
AD3552R_SCRATCH_PAD_TEST_VAL2 == 178

ad3552r_chip_ids(id) == IF id = "AD3542R_ID" THEN 16392 ELSE 16393

(* Lines 1194-1211: the loop of status reads, loc = [first_check, timeout] *)
RECURSIVE ResetLoop(_, _)
ResetPolled(r, n) ==
    CASE n.next = "poll" -> ResetLoop(r, n)
      [] n.next = "break" -> reset_end(r)
      [] n.next = "return" -> [r EXCEPT !.err = n.err]

ResetRead(r, loc) == ResetPolled(r, reset_poll(loc, r))

ResetLoop(m, loc) ==
    ResetRead(ad3552r_read_reg(m, AD3552R_REG_ADDR_INTERFACE_CONFIG_B), loc)

(* b is the machine after the pin pulse or the software reset *)
ResetBegun(b) ==
    IF IS_ERR_VALUE(b.err) THEN b
    ELSE ResetLoop(b, [first_check |-> 0, timeout |-> RESET_TIMEOUT])

(* ad3552r_reset *)
ad3552r_reset(m) == ResetBegun(reset_begin(m))

(* ad3552r_check_scratch_pad: each operator takes the machine after the    *)
(* register access before it                                               *)
ScratchRead2(r) ==
    IF IS_ERR_VALUE(r.err) THEN r
    ELSE IF r.val # AD3552R_SCRATCH_PAD_TEST_VAL2
    THEN [r EXCEPT !.err = "ENODEV"]
    ELSE [r EXCEPT !.err = SUCCESS]

ScratchWrite2(w) ==
    IF IS_ERR_VALUE(w.err) THEN w
    ELSE ScratchRead2(ad3552r_read_reg(w, AD3552R_REG_ADDR_SCRATCH_PAD))

ScratchRead1(r) ==
    IF IS_ERR_VALUE(r.err) THEN r
    ELSE IF r.val # AD3552R_SCRATCH_PAD_TEST_VAL1
    THEN [r EXCEPT !.err = "ENODEV"]
    ELSE ScratchWrite2(ad3552r_write_reg(r, AD3552R_REG_ADDR_SCRATCH_PAD,
                                         AD3552R_SCRATCH_PAD_TEST_VAL2))

ScratchWrite1(w) ==
    IF IS_ERR_VALUE(w.err) THEN w
    ELSE ScratchRead1(ad3552r_read_reg(w, AD3552R_REG_ADDR_SCRATCH_PAD))

ad3552r_check_scratch_pad(m) ==
    ScratchWrite1(ad3552r_write_reg(m, AD3552R_REG_ADDR_SCRATCH_PAD,
                                    AD3552R_SCRATCH_PAD_TEST_VAL1))

(* Lines 1008-1013 *)
ConfVrefVal(param) ==
    IF param.use_external_vref THEN AD3552R_EXTERNAL_VREF_PIN_INPUT
    ELSE IF param.vref_out_enable THEN AD3552R_INTERNAL_VREF_PIN_2P5V
    ELSE AD3552R_INTERNAL_VREF_PIN_FLOATING

(* Lines 1059-1069: the LDAC pin is looked up; the GPIO calls succeed *)
ConfLdac(m, param) ==
    [m EXCEPT !.desc.ldac = param.ldac_pin, !.err = SUCCESS]

(* Lines 1027-1057: the loop over the channels, from channel i.  The       *)
(* channels are given preset ranges.                                       *)
RECURSIVE ConfChannels(_, _, _)
ConfChannelSet(r, param, i) ==
    IF IS_ERR_VALUE(r.err) THEN r ELSE ConfChannels(r, param, i + 1)

ConfChannels(m, param, i) ==
    IF i >= AD3552R_NUM_CH THEN ConfLdac(m, param)
    ELSE IF param.channels[i].en
    THEN (IF param.channels[i].range
                > AD3552R_RANGE_MAX_VALUE(m.desc.chip_id)
          THEN [ChPut(m, i, "fast_en", param.channels[i].fast_en)
                EXCEPT !.err = "EINVAL"]
          ELSE ConfChannelSet(
                   ad3552r_set_ch_value(
                       ChPut(ChPut(m, i, "fast_en",
                                   param.channels[i].fast_en),
                             i, "range", param.channels[i].range),
                       TRUE, "CH_OUTPUT_RANGE_SEL", i,
                       param.channels[i].range),
                   param, i))
    ELSE ConfChannelSet(
             ad3552r_set_ch_value(m, TRUE, "CH_AMPLIFIER_POWERDOWN", i, 1),
             param, i)

(* Lines 1019-1025: s is the machine after the reference was selected *)
ConfSdo(s, param) ==
    IF IS_ERR_VALUE(s.err) THEN s
    ELSE ConfChannels(s, param, 0)

ConfVref(r, param) ==
    IF IS_ERR_VALUE(r.err) THEN r
    ELSE IF param.sdo_drive_strength > 3 THEN [r EXCEPT !.err = "EINVAL"]
    ELSE ConfSdo(ad3552r_set_dev_value(r, TRUE, "SDO_DRIVE_STRENGTH",
                                       param.sdo_drive_strength),
                 param)

(* ad3552r_configure_device *)
ad3552r_configure_device(m, param) ==
    ConfVref(ad3552r_set_dev_value(m, TRUE, "VREF_SELECT",
                                   ConfVrefVal(param)),
             param)

(* The descriptor ad3552r_init allocates: calloc, then the reset pin *)
NewDesc(param) ==
    [spi_cfg |-> ZeroCfg, crc_en |-> 0, reset |-> param.reset_pin,
     ldac |-> FALSE, chip_id |-> "AD3542R_ID",
     ch_data |-> [ch \in Channels |-> ZeroCh], overrun |-> FALSE]

(* Lines 1139-1149: c is the machine after ad3552r_configure_device *)
InitConfigured(c) ==
    IF IS_ERR_VALUE(c.err) THEN [c EXCEPT !.err = "ENODEV"]
    ELSE [c EXCEPT !.err = SUCCESS]

(* Lines 1128-1138: h is the machine after the read of PRODUCT_ID_H, id    *)
(* the low byte read before                                                *)
InitIdHigh(h, param, id) ==
    IF h.err # SUCCESS THEN h
    ELSE IF BitOr(id, (h.val * 256) % 65536) # ad3552r_chip_ids(param.chip_id)
    THEN [h EXCEPT !.err = "ENODEV"]
    ELSE InitConfigured(
             ad3552r_configure_device(
                 [h EXCEPT !.desc.chip_id = param.chip_id], param))

(* Lines 1121-1128: l is the machine after the read of PRODUCT_ID_L *)
InitIdLow(l, param) ==
    IF l.err # SUCCESS THEN l
    ELSE InitIdHigh(ad3552r_read_reg(l, AD3552R_REG_ADDR_PRODUCT_ID_H),
                    param, l.val)

(* Lines 1114-1121: p is the machine after the scratch pad test *)
InitScratched(p, param) ==
    IF IS_ERR_VALUE(p.err) THEN p
    ELSE InitIdLow(ad3552r_read_reg(p, AD3552R_REG_ADDR_PRODUCT_ID_L),
                   param)

(* Lines 1108-1114: c is the machine after CRC was set *)
InitCrcSet(c, param) ==
    IF IS_ERR_VALUE(c.err) THEN c
    ELSE InitScratched(ad3552r_check_scratch_pad(c), param)

(* Lines 1102-1108: r is the machine after the reset *)
InitReset(r, param) ==
    IF IS_ERR_VALUE(r.err) THEN r
    ELSE InitCrcSet(ad3552r_set_dev_value(r, TRUE, "CRC_ENABLE",
                                          param.crc_en),
                    param)

(* ad3552r_init for param, on the device of machine m; the allocation,     *)
(* spi_init and the GPIO calls succeed                                     *)
ad3552r_init(m, param) ==
    InitReset(ad3552r_reset([m EXCEPT !.desc = NewDesc(param)]), param)

(* ad3552r_get_scale and ad3552r_get_offset: no bus exchange; h: the       *)
(* handle is not null.  The result is [err, integer, dec], the two         *)
(* outputs being 0 where the call does not store them.                     *)
ad3552r_get_scale(d, h, ch) ==
    IF ~h \/ ch >= AD3552R_NUM_CH
    THEN [err |-> "EINVAL", integer |-> 0, dec |-> 0]
    ELSE [err |-> SUCCESS, integer |-> d.ch_data[ch].scale_int,
          dec |-> d.ch_data[ch].scale_dec]

ad3552r_get_offset(d, h, ch) ==
    IF ~h \/ ch >= AD3552R_NUM_CH
    THEN [err |-> "EINVAL", integer |-> 0, dec |-> 0]
    ELSE [err |-> SUCCESS, integer |-> d.ch_data[ch].offset_int,
          dec |-> d.ch_data[ch].offset_dec]
---------------------------------------------------------------------------
(* Operations called from idle *)

(* The memory behind the caller's buffer, as far as a chunk can reach *)
Guard == [k \in 1..AD3552R_MAX_REG_SIZE |-> 170]

(* ad3552r_transfer(desc, data) with the caller's buffer buf *)
DoTransfer(data, buf, script) ==
    /\ pc = "idle"
    /\ \E r \in {ad3552r_transfer(
                    [Machine(desc, dev, script) EXCEPT !.buf = buf \o Guard],
                    data)} :
           /\ desc' = r.desc
           /\ dev' = r.dev
           /\ last' = [op |-> "transfer", data |-> data,
                       buf0 |-> buf \o Guard,
                       cfg0 |-> desc.spi_cfg, crc |-> desc.crc_en,
                       err |-> r.err, log |-> r.log, buf |-> r.buf,
                       sync |-> r.sync, syncErr |-> r.syncErr]
    /\ pc' = "returned"
    /\ UNCHANGED rst

(* ad3552r_read_reg(desc, addr, &val) *)
DoReadReg(addr, script) ==
    /\ pc = "idle"
    /\ \E r \in {ad3552r_read_reg(Machine(desc, dev, script), addr)} :
           /\ desc' = r.desc
           /\ dev' = r.dev
           /\ last' = [op |-> "read_reg", addr |-> addr,
                       cfg0 |-> desc.spi_cfg, crc |-> desc.crc_en,
                       err |-> r.err, log |-> r.log, val |-> r.val]
    /\ pc' = "returned"
    /\ UNCHANGED rst

(* ad3552r_write_reg(desc, addr, val) *)
DoWriteReg(addr, v, script) ==
    /\ pc = "idle"
    /\ \E r \in {ad3552r_write_reg(Machine(desc, dev, script), addr, v)} :
           /\ desc' = r.desc
           /\ dev' = r.dev
           /\ last' = [op |-> "write_reg", addr |-> addr, val |-> v,
                       cfg0 |-> desc.spi_cfg, crc |-> desc.crc_en,
                       err |-> r.err, log |-> r.log]
    /\ pc' = "returned"
    /\ UNCHANGED rst

(* ad3552r_read_reg of the register that the ad3552r_write_reg which has   *)
(* just returned was given: the caller reads back what it wrote           *)
ReadBack(script) ==
    /\ pc = "returned"
    /\ last.op = "write_reg"
    /\ \E r \in {ad3552r_read_reg(Machine(desc, dev, script), last.addr)} :
           /\ desc' = r.desc
           /\ dev' = r.dev
           /\ last' = [op |-> "read_back", addr |-> last.addr,
                       wval |-> last.val, werr |-> last.err,
                       cfg0 |-> desc.spi_cfg, crc |-> desc.crc_en,
                       err |-> r.err, log |-> r.log, val |-> r.val]
    /\ pc' = "returned"
    /\ UNCHANGED rst

(* ad3552r_set_dev_value(desc, AD3552R_CRC_ENABLE, en) *)
DoSetCrc(en, script) ==
    /\ pc = "idle"
    /\ \E r \in {_ad3552r_set_crc_enable(Machine(desc, dev, script), en)} :
           /\ desc' = r.desc
           /\ dev' = r.dev
           /\ last' = [op |-> "set_crc", en |-> en, crc |-> desc.crc_en,
                       err |-> r.err, log |-> r.log]
    /\ pc' = "returned"
    /\ UNCHANGED rst

(* The operation has returned; the caller goes on *)
Return ==
    /\ pc = "returned"
    /\ pc' = "idle"
    /\ last' = NoOp
    /\ UNCHANGED <<desc, dev, rst>>

---------------------------------------------------------------------------
(* ad3552r_reset *)

ResetStart ==
    /\ pc = "idle"
    /\ \E f \in 0..MaxFaultPos, e \in ResetBusErrs :
         \E r \in {reset_begin(Machine(desc, dev, FaultScript(f, e)))} :
             /\ desc' = r.desc
             /\ dev' = r.dev
             /\ pc' = IF IS_ERR_VALUE(r.err) THEN "done" ELSE "poll"
             /\ rst' = [RstIdle EXCEPT !.timeout = RESET_TIMEOUT,
                                       !.err = r.err,
                                       !.fault = LogFaulty(r.log),
                                       !.asc0 = desc.spi_cfg.addr_asc]
             /\ last' = [op |-> "reset", err |-> r.err, log |-> r.log]

(* The ghost fields of rst after a status read whose exchange is ent and   *)
(* whose outcome is n: reads counts the status reads, seen says a read     *)
(* answered the default value, lastReady that the last read came after     *)
(* such a read and had the not-ready bit clear                             *)
PollGhost(ent, n) ==
    IF EntryFaulty(ent)
    THEN [rst EXCEPT !.first_check = n.first_check,
                     !.timeout = n.timeout,
                     !.err = n.err,
                     !.reads = rst.reads + 1,
                     !.lastReady = FALSE,
                     !.fault = TRUE]
    ELSE [rst EXCEPT !.first_check = n.first_check,
                     !.timeout = n.timeout,
                     !.err = n.err,
                     !.reads = rst.reads + 1,
                     !.seen = rst.seen
                              \/ EntryData(ent)[1]
                                   = AD3552R_DEFAULT_CONFIG_B_VALUE,
                     !.lastReady =
                         rst.seen
                         /\ BitAnd(EntryData(ent)[1],
                                   AD3552R_MASK_INTERFACE_NOT_READY) = 0,
                     !.everReady =
                         rst.everReady
                         \/ (rst.seen
                             /\ BitAnd(EntryData(ent)[1],
                                       AD3552R_MASK_INTERFACE_NOT_READY) = 0)]

ResetPoll ==
    /\ pc = "poll"
    /\ \E rsp \in PollRsps :
         \E r \in {ad3552r_read_reg(Machine(desc, dev, <<rsp>>),
                                    AD3552R_REG_ADDR_INTERFACE_CONFIG_B)} :
           \E n \in {reset_poll(rst, r)} :
             /\ desc' = r.desc
             /\ dev' = r.dev
             /\ pc' = CASE n.next = "poll" -> "poll"
                        [] n.next = "break" -> "finish"
                        [] n.next = "return" -> "done"
             /\ rst' = PollGhost(r.log[Len(r.log)], n)
             /\ last' = [op |-> "reset", err |-> n.err, log |-> <<>>]

ResetFinish ==
    /\ pc = "finish"
    /\ \E f \in 0..MaxFaultPos, e \in ResetBusErrs :
         \E r \in {reset_end(Machine(desc, dev, FaultScript(f, e)))} :
             /\ desc' = r.desc
             /\ dev' = r.dev
             /\ pc' = "done"
             /\ rst' = [rst EXCEPT !.err = r.err,
                                   !.tail = Len(r.log),
                                   !.fault = rst.fault \/ LogFaulty(r.log)]
             /\ last' = [op |-> "reset", err |-> r.err, log |-> r.log]

(* ad3552r_reset has returned rst.err; the caller goes on *)
ResetReturn ==
    /\ pc = "done"
    /\ pc' = "idle"
    /\ rst' = RstIdle
    /\ last' = [op |-> "reset", err |-> rst.err, log |-> <<>>]
    /\ UNCHANGED <<desc, dev>>


---------------------------------------------------------------------------
(* Attribute operations *)

(* The register an attribute is kept in *)
AnyAttrReg(kind, attr) ==
    IF kind = "dev" THEN AttrReg(attr)
    ELSE IF attr \in ChMapAttrs THEN ChAttrReg(attr)
    ELSE AD3552R_REG_ADDR_INTERFACE_CONFIG_A

(* ad3552r_set_dev_value(desc, attr, v); h: desc is not null *)
DoSetDev(h, attr, v, script) ==
    /\ pc = "idle"
    /\ \E r \in {ad3552r_set_dev_value(Machine(desc, dev, script),
                                       h, attr, v)} :
           /\ desc' = r.desc
           /\ dev' = r.dev
           /\ last' = [op |-> "set", kind |-> "dev", h |-> h,
                       attr |-> attr, ch |-> 0, v |-> v,
                       desc0 |-> desc, crc |-> desc.crc_en,
                       reg0 |-> DevByte(dev, AttrReg(attr)),
                       reg1 |-> DevByte(r.dev, AttrReg(attr)),
                       err |-> r.err, log |-> r.log]
    /\ pc' = "returned"
    /\ UNCHANGED rst

(* ad3552r_set_ch_value(desc, attr, ch, v); h: desc is not null; ub: what  *)
(* the build makes of undefined behaviour, should the call run into it; a  *)
(* call that traps does not return                                         *)
DoSetCh(h, attr, ch, v, script, ub) ==
    /\ pc = "idle"
    /\ \E r \in {ad3552r_set_ch_value(
                    [Machine(desc, dev, script) EXCEPT !.ub = ub],
                    h, attr, ch, v)} :
           /\ desc' = r.desc
           /\ dev' = r.dev
           /\ last' = [op |-> "set", kind |-> "ch", h |-> h,
                       attr |-> attr, ch |-> ch, v |-> v,
                       desc0 |-> desc, crc |-> desc.crc_en,
                       reg0 |-> DevByte(dev, AnyAttrReg("ch", attr)),
                       reg1 |-> DevByte(r.dev, AnyAttrReg("ch", attr)),
                       err |-> r.err, log |-> r.log]
    /\ pc' = IF last'.err = "TRAP" THEN "trapped" ELSE "returned"
    /\ UNCHANGED rst

(* The get of the attribute that the set which has just returned was       *)
(* given: ad3552r_get_dev_value or ad3552r_get_ch_value                    *)
GetBack(script) ==
    /\ pc = "returned"
    /\ last.op = "set"
    /\ \E r \in {IF last.kind = "dev"
                 THEN ad3552r_get_dev_value(Machine(desc, dev, script),
                                            last.h, last.attr)
                 ELSE ad3552r_get_ch_value(Machine(desc, dev, script),
                                           last.h, last.attr, last.ch)} :
           /\ desc' = r.desc
           /\ dev' = r.dev
           /\ last' = [op |-> "get_back", kind |-> last.kind,
                       attr |-> last.attr, ch |-> last.ch, v |-> last.v,
                       serr |-> last.err, reg0 |-> last.reg0,
                       reg1 |-> last.reg1, crc |-> desc.crc_en,
                       err |-> r.err, log |-> r.log, val |-> r.val]
    /\ pc' = "returned"
    /\ UNCHANGED rst

(* ad3552r_write_samples(desc, data, samples, ch_mask, mode) *)
DoWriteSamples(data, samples, ch_mask, mode, script) ==
    /\ pc = "idle"
    /\ \E r \in {ad3552r_write_samples(Machine(desc, dev, script),
                                       data, samples, ch_mask, mode)} :
           /\ desc' = r.desc
           /\ dev' = r.dev
           /\ last' = [op |-> "write_samples", data |-> data,
                       samples |-> samples, ch_mask |-> ch_mask,
                       mode |-> mode, desc0 |-> desc, crc |-> desc.crc_en,
                       err |-> r.err, log |-> r.log, gpio |-> r.gpio]
    /\ pc' = "returned"
    /\ UNCHANGED rst

(* ad3552r_init(&desc, param): *desc is assigned on success only *)
DoInit(param, script) ==
    /\ pc = "idle"
    /\ \E r \in {ad3552r_init(Machine(desc, dev, script), param)} :
           /\ desc' = IF IS_ERR_VALUE(r.err) THEN desc ELSE r.desc
           /\ dev' = r.dev
           /\ last' = [op |-> "init", param |-> param, err |-> r.err,
                       log |-> r.log]
    /\ pc' = "returned"
    /\ UNCHANGED rst

(* ad3552r_reset(desc), as one call *)
DoReset(script) ==
    /\ pc = "idle"
    /\ \E r \in {ad3552r_reset(Machine(desc, dev, script))} :
           /\ desc' = r.desc
           /\ dev' = r.dev
           /\ last' = [op |-> "reset", desc0 |-> desc, err |-> r.err,
                       log |-> r.log]
    /\ pc' = "returned"
    /\ UNCHANGED rst

(* ad3552r_get_dev_value(desc, attr, &val); h: desc is not null *)
DoGetDev(h, attr, script) ==
    /\ pc = "idle"
    /\ \E r \in {ad3552r_get_dev_value(Machine(desc, dev, script),
                                       h, attr)} :
           /\ desc' = r.desc
           /\ dev' = r.dev
           /\ last' = [op |-> "get", kind |-> "dev", h |-> h,
                       attr |-> attr, ch |-> 0, desc0 |-> desc,
                       err |-> r.err, log |-> r.log, val |-> r.val]
    /\ pc' = "returned"
    /\ UNCHANGED rst

(* ad3552r_get_ch_value(desc, attr, ch, &val); h: desc is not null; ub:    *)
(* what the build makes of undefined behaviour                             *)
DoGetCh(h, attr, ch, script, ub) ==
    /\ pc = "idle"
    /\ \E r \in {ad3552r_get_ch_value(
                    [Machine(desc, dev, script) EXCEPT !.ub = ub],
                    h, attr, ch)} :
           /\ desc' = r.desc
           /\ dev' = r.dev
           /\ last' = [op |-> "get", kind |-> "ch", h |-> h,
                       attr |-> attr, ch |-> ch, desc0 |-> desc,
                       err |-> r.err, log |-> r.log, val |-> r.val]
    /\ pc' = "returned"
    /\ UNCHANGED rst

(* ad3552r_get_scale(desc, ch, &integer, &dec) or ad3552r_get_offset *)
DoGetCal(which, h, ch) ==
    /\ pc = "idle"
    /\ \E r \in {IF which = "scale" THEN ad3552r_get_scale(desc, h, ch)
                 ELSE ad3552r_get_offset(desc, h, ch)} :
           last' = [op |-> "get_cal", which |-> which, h |-> h, ch |-> ch,
                    desc0 |-> desc, err |-> r.err, log |-> <<>>,
                    integer |-> r.integer, dec |-> r.dec]
    /\ pc' = "returned"
    /\ UNCHANGED <<desc, dev, rst>>

(* ad3552r_read_reg(desc, addr, &val) by the caller whose set of           *)
(* AD3552R_CRC_ENABLE has just returned                                    *)
ReadAfterSetCrc(addr, script) ==
    /\ pc = "returned"
    /\ last.op = "set_crc"
    /\ \E r \in {ad3552r_read_reg(Machine(desc, dev, script), addr)} :
           /\ desc' = r.desc
           /\ dev' = r.dev
           /\ last' = [op |-> "read_after_crc", addr |-> addr,
                       en |-> last.en, crc0 |-> last.crc,
                       serr |-> last.err, crc |-> desc.crc_en,
                       err |-> r.err, log |-> r.log, val |-> r.val]
    /\ pc' = "returned"
    /\ UNCHANGED rst
---------------------------------------------------------------------------
(* Reset specification: resets, and between them a transfer whose config   *)
(* override switches the address ascension                                 *)

AscCfg(a) == [ZeroCfg EXCEPT !.addr_asc = a]

ResetCfgTransfer ==
    \E a \in {0, 1} :
        DoTransfer(TransferData(AD3552R_REG_ADDR_INTERFACE_CONFIG_B, TRUE, 1,
                                AscCfg(a)),
                   <<0, 0, 0, 0>>, <<>>)

NextReset ==
    \/ ResetStart
    \/ ResetPoll
    \/ ResetFinish
    \/ ResetReturn
    \/ ResetCfgTransfer
    \/ Return

SpecReset == Init /\ [][NextReset]_vars

(* ad3552r_reset has left its loop by the break, or has returned success *)
ResetCompleted ==
    pc = "finish" \/ (pc = "done" /\ rst.err = SUCCESS)

(* C1: ad3552r_reset completes (leaves its polling loop for the final      *)
(* write, and returns success) only if the status read that completed it   *)
(* had the not-ready bit clear and came strictly after a status read that  *)
(* answered exactly the default value 0x08; a ready read before the        *)
(* default was seen, or the default read itself, does not complete it.     *)
C1_ResetReadyOrder == ResetCompleted => rst.lastReady /\ rst.reads >= 2

(* A reset that returned success after the default and then a ready read *)
C1_Witness ==
    /\ pc = "done"
    /\ rst.err = SUCCESS
    /\ rst.lastReady
    /\ rst.reads >= 3

(* C2: the polling loop makes at most 5000 status reads and is left at     *)
(* the 5000th at the latest; a reset whose status reads never met the      *)
(* ready condition and whose exchanges all went well has made exactly      *)
(* 5000 status reads, returns the timeout error (-EIO) and has made no     *)
(* exchange after the last status read.                                    *)
C2_ResetTimeout ==
    /\ rst.reads <= RESET_TIMEOUT
    /\ (pc = "poll" => rst.reads < RESET_TIMEOUT)
    /\ (pc = "done" /\ ~rst.everReady /\ ~rst.fault
          => /\ rst.reads = RESET_TIMEOUT
             /\ rst.err = "EIO"
             /\ rst.tail = 0)

(* A reset that ran out of its budget *)
C2_Witness ==
    /\ pc = "done"
    /\ ~rst.everReady
    /\ ~rst.fault
    /\ rst.reads = RESET_TIMEOUT
    /\ rst.err = "EIO"
    /\ rst.tail = 0

(* C3: after ad3552r_reset has returned success the address ascension is   *)
(* descending (0) both in the device's register and in the cached          *)
(* spi_cfg.addr_asc, whatever it was before the reset.                     *)
C3_ResetForcesDescending ==
    pc = "done" /\ rst.err = SUCCESS
        => ~DevAsc(dev) /\ desc.spi_cfg.addr_asc = 0

(* A successful reset that leaves the cache ascending, the device not *)
C3_StaleCache ==
    /\ pc = "done"
    /\ rst.err = SUCCESS
    /\ rst.asc0 = 1
    /\ desc.spi_cfg.addr_asc = 1
    /\ ~DevAsc(dev)

---------------------------------------------------------------------------
(* CRC specification: with CRC switched on, reads and writes of several    *)
(* chunks under each direction and stream length; on the bus, one received *)
(* byte of one exchange may be corrupted                                   *)

MaxChunk == 3        \* the corrupted exchange is one of the first MaxChunk
MaxCrcLen == 6       \* bytes of a CRC-framed transfer, at most

(* The bits flipped in the corrupted byte *)
FlipMasks == {1, 255}

(* Start addresses: both ends of the address space, the primary region,    *)
(* and 16-bit and 24-bit registers of the secondary region                 *)
CrcStarts == {0, 3, 44, 61, 74}

CrcLens == {1, 2, 4, MaxCrcLen}

CrcStreamLengths == {0, 2, 3}

CrcCfgs ==
    {[ZeroCfg EXCEPT !.addr_asc = a, !.stream_mode_length = l] :
        a \in {0, 1}, l \in CrcStreamLengths}

(* The writes: several byte-wide registers of the primary region, and a   *)
(* 16-bit register of the secondary region                                *)
CrcWrites ==
    {[addr |-> 30, buf |-> <<0, 0>>],
     [addr |-> 30, buf |-> <<0, 0, 0, 0>>],
     [addr |-> 44, buf |-> <<18, 52>>]}

(* A script that corrupts byte p of exchange c with mask x (c = 0: none) *)
CorruptScript(c, p, x) ==
    [k \in 1..c |->
        IF k = c THEN [OkRsp EXCEPT !.flipPos = p, !.flipMask = x]
        ELSE OkRsp]

CrcScripts ==
    {<<>>} \cup {CorruptScript(c, p, x) :
                    c \in 1..MaxChunk,
                    p \in 1..(AD3552R_MAX_REG_SIZE + 2),
                    x \in FlipMasks}

(* ad3552r_set_dev_value(desc, AD3552R_CRC_ENABLE, en) *)
CrcSwitch == \E en \in {0, 1} : DoSetCrc(en, <<>>)

(* A transfer whose config override sets direction and stream length *)
CrcConfigure ==
    \E cfg \in CrcCfgs :
        DoTransfer(TransferData(AD3552R_REG_ADDR_INTERFACE_CONFIG_B, TRUE, 1,
                                cfg),
                   <<0>>, <<>>)

CrcRead ==
    /\ desc.crc_en # 0
    /\ \E addr \in CrcStarts, n \in CrcLens, script \in CrcScripts :
           DoTransfer(TransferData(addr, TRUE, n, NoCfg),
                      [k \in 1..n |-> 0], script)

CrcWrite ==
    /\ desc.crc_en # 0
    /\ \E w \in CrcWrites, script \in CrcScripts :
           DoTransfer(TransferData(w.addr, FALSE, Len(w.buf), NoCfg),
                      w.buf, script)

NextCrc ==
    \/ CrcSwitch
    \/ CrcConfigure
    \/ CrcRead
    \/ CrcWrite
    \/ Return

SpecCrc == InitPin(FALSE) /\ [][NextCrc]_vars

(* What the last operation's log shows *)

(* The exchanges of the transfer proper, behind those of the config sync *)
SyncEnd == IF last.sync = <<>> THEN 0 ELSE last.sync[Len(last.sync)].to

BodyLog == SubSeq(last.log, SyncEnd + 1, Len(last.log))

(* The SPI configuration the transfer proper ran under *)
LastCfg ==
    IF last.data.spi_cfg = NoCfg THEN last.cfg0 ELSE last.data.spi_cfg

LastSign == IF LastCfg.addr_asc # 0 THEN 1 ELSE -1

(* Data bytes of the first k exchanges of a log *)
RECURSIVE LogBytes(_, _)
LogBytes(log, k) == IF k = 0 THEN 0 ELSE LogBytes(log, k - 1) + log[k].n

(* A CRC-framed transfer has returned *)
CrcTransferDone ==
    pc = "returned" /\ last.op = "transfer" /\ last.crc # 0

(* One received byte of the exchange differs from the byte sent to it *)
Corrupted(e) == e.err = SUCCESS /\ e.rx # e.sent

CorruptPos(e) == CHOOSE p \in 1..Len(e.rx) : e.rx[p] # e.sent[p]

(* The received bytes the driver looks at: data and CRC of a read chunk,   *)
(* the byte at the CRC's place of a write chunk                            *)
CheckedPos(e) ==
    IF e.is_read THEN (IF e.first THEN 2 ELSE 1)..Len(e.sent)
    ELSE {Len(e.sent)}

(* The data bytes the device sent in a read chunk *)
SentData(e) == BufGet(IF e.first THEN Tail(e.sent) ELSE e.sent, 0, e.n)

(* The chunk, as received, fails the comparison the protocol asks for *)
Mismatch(e) ==
    /\ e.err = SUCCESS
    /\ e.framed
    /\ IF e.is_read
       THEN e.rx[Len(e.rx)] # crc8(EntryData(e), e.crc_init)
       ELSE e.rx[Len(e.rx)] # e.tx[Len(e.tx)]

(* The caller's buffer holds, for each chunk read, the bytes the device sent *)
BufferIsSent ==
    \A k \in 1..Len(BodyLog) :
        \A j \in 1..BodyLog[k].n :
            last.buf[LogBytes(BodyLog, k - 1) + j] = SentData(BodyLog[k])[j]

(* C4 as stated: with CRC enabled, a transfer in which one received byte   *)
(* of one exchange is corrupted, whichever byte it is, returns -EBADMSG,   *)
(* and a read never returns success with data that differ from what the    *)
(* device sent.                                                            *)
C4_AnyCorruptionDetected ==
    CrcTransferDone =>
        /\ (\E k \in 1..Len(BodyLog) : Corrupted(BodyLog[k]))
              => last.err = "EBADMSG"
        /\ (last.err = SUCCESS /\ last.data.is_read => BufferIsSent)

(* C4, amended: a corrupted byte among those the driver compares (data or  *)
(* CRC byte of a read chunk, the byte at the CRC's place of a write        *)
(* chunk's echo) makes the transfer return -EBADMSG; a corrupted byte      *)
(* elsewhere (the byte received during the instruction of a read, an       *)
(* echoed instruction or data byte of a write) is not noticed; and a read  *)
(* never returns success with data that differ from what the device sent.  *)
C4_CheckedCorruptionDetected ==
    CrcTransferDone =>
        /\ \A k \in 1..Len(BodyLog) :
              Corrupted(BodyLog[k]) =>
                 IF CorruptPos(BodyLog[k]) \in CheckedPos(BodyLog[k])
                 THEN last.err = "EBADMSG"
                 ELSE last.err = SUCCESS
        /\ (last.err = SUCCESS /\ last.data.is_read => BufferIsSent)

(* A read whose second chunk had a data byte corrupted, and was refused *)
C4_Witness ==
    /\ CrcTransferDone
    /\ last.data.is_read
    /\ Len(BodyLog) = 2
    /\ Corrupted(BodyLog[2])
    /\ CorruptPos(BodyLog[2]) = 1
    /\ last.err = "EBADMSG"

(* C5: when a CRC-framed read returns -EBADMSG, the caller's buffer holds  *)
(* no byte of the chunk whose CRC failed: where that chunk's data would    *)
(* go, the buffer is as it was before the call.                            *)
C5_FailedChunkNotStored ==
    CrcTransferDone /\ last.data.is_read /\ last.err = "EBADMSG"
        => \A j \in 1..BodyLog[Len(BodyLog)].n :
              last.buf[LogBytes(BodyLog, Len(BodyLog) - 1) + j]
                = last.buf0[LogBytes(BodyLog, Len(BodyLog) - 1) + j]

(* A refused read that left the refused bytes in the caller's buffer *)
C5_Stored ==
    /\ CrcTransferDone
    /\ last.data.is_read
    /\ last.err = "EBADMSG"
    /\ last.buf # last.buf0

(* C6: in a CRC-framed transfer, a chunk that shows a CRC mismatch (read)  *)
(* or an echo mismatch (write) is the last exchange of the transfer, and   *)
(* the transfer returns -EBADMSG.                                          *)
C6_MismatchIsFatal ==
    CrcTransferDone =>
        \A k \in 1..Len(BodyLog) :
            Mismatch(BodyLog[k])
                => k = Len(BodyLog) /\ last.err = "EBADMSG"

(* A write of several chunks stopped by the echo of a chunk that is not    *)
(* the last                                                                *)
C6_Witness ==
    /\ CrcTransferDone
    /\ ~last.data.is_read
    /\ Len(BodyLog) >= 2
    /\ Mismatch(BodyLog[Len(BodyLog)])
    /\ LogBytes(BodyLog, Len(BodyLog)) < last.data.len
    /\ last.err = "EBADMSG"

(* C10 as stated: with a stream length L # 0, chunk k (from 0) of a        *)
(* CRC-framed transfer is addressed at start + sign * (k mod L) * width.   *)
C10_StreamAddressByChunk ==
    CrcTransferDone /\ LastCfg.stream_mode_length # 0 =>
        \A k \in 1..Len(BodyLog) :
            BodyLog[k].addr =
                last.data.addr
                + LastSign * ((k - 1) % LastCfg.stream_mode_length)
                  * BodyLog[k].n

(* C10, amended: with a stream length L # 0, a chunk is addressed at       *)
(* start + sign * (B mod L), B the number of data bytes of the chunks      *)
(* before it, reduced modulo 256 and then modulo the size of the address   *)
(* space; which is start + sign * (k mod L) for chunk k when the chunks    *)
(* before it are one byte wide and that address lies in the address space. *)
C10_StreamAddressByBytes ==
    CrcTransferDone /\ LastCfg.stream_mode_length # 0 =>
        \A k \in 1..Len(BodyLog) :
            /\ BodyLog[k].addr =
                  ((last.data.addr
                    + LastSign * (LogBytes(BodyLog, k - 1)
                                  % LastCfg.stream_mode_length)) % 256)
                  % AD3552R_REG_ADDR_MAX
            /\ ( /\ LogBytes(BodyLog, k - 1) = k - 1
                 /\ last.data.addr
                    + LastSign * ((k - 1) % LastCfg.stream_mode_length)
                      \in DevAddrs
                 => BodyLog[k].addr =
                       last.data.addr
                       + LastSign * ((k - 1) % LastCfg.stream_mode_length) )

(* A descending read of six chunks that went round a stream of three *)
C10_Witness ==
    /\ CrcTransferDone
    /\ LastCfg.stream_mode_length = 3
    /\ LastCfg.addr_asc = 0
    /\ last.err = SUCCESS
    /\ Len(BodyLog) = 6
    /\ BodyLog[5].addr = last.data.addr - 1


(* C11: with no stream length configured, each chunk of a CRC-framed       *)
(* transfer is addressed at the address of the chunk before it plus        *)
(* sign * the width of that chunk, taken modulo the size of the register   *)
(* address space, in both directions and across both ends of the space.    *)
C11_AddressProgression ==
    CrcTransferDone /\ LastCfg.stream_mode_length = 0 =>
        \A k \in 1..(Len(BodyLog) - 1) :
            BodyLog[k + 1].addr =
                (BodyLog[k].addr + LastSign * BodyLog[k].n)
                    % AD3552R_REG_ADDR_MAX

(* A descending read from address 0 whose second chunk was addressed at   *)
(* 255 mod 75 = 30, not at the top of the address space                   *)
C11_WrapBelowZero ==
    /\ CrcTransferDone
    /\ LastCfg.stream_mode_length = 0
    /\ LastCfg.addr_asc = 0
    /\ last.err = SUCCESS
    /\ Len(BodyLog) >= 2
    /\ BodyLog[1].addr = 0
    /\ BodyLog[2].addr = 30

(* The seed the protocol asks for chunk k of the transfer: the CRC-8 of    *)
(* the instruction byte from the seed 0xA5 for the first chunk, the        *)
(* chunk's address for the others                                          *)
ChunkSeed(k) ==
    IF k = 1 THEN crc8(<<Instr(last.data)>>, AD3552R_CRC_SEED)
    ELSE BodyLog[k].addr

(* The bytes of the caller's buffer that chunk k of a write carries *)
ChunkPayload(k) ==
    BufGet(last.buf0, LogBytes(BodyLog, k - 1), BodyLog[k].n)

(* C12: every chunk of a CRC-framed transfer carries as many data bytes as *)
(* the register it addresses is wide; a write chunk sends its data bytes   *)
(* followed by their CRC-8 from the chunk's seed (behind the instruction   *)
(* in the first chunk); a read chunk is accepted exactly when the CRC byte *)
(* received equals the CRC-8 of the data bytes received from that seed.    *)
C12_ChunkWidthAndSeed ==
    CrcTransferDone =>
        \A k \in 1..Len(BodyLog) :
            /\ BodyLog[k].n = _ad3552r_reg_len(BodyLog[k].addr)
            /\ BodyLog[k].crc_init = ChunkSeed(k)
            /\ ~BodyLog[k].is_read =>
                  BodyLog[k].tx =
                      (IF k = 1 THEN <<Instr(last.data)>> ELSE <<>>)
                      \o ChunkPayload(k)
                      \o <<crc8(ChunkPayload(k), ChunkSeed(k))>>
            /\ BodyLog[k].is_read =>
                  /\ Len(BodyLog[k].rx)
                        = BodyLog[k].n + 1 + (IF k = 1 THEN 1 ELSE 0)
                  /\ (k < Len(BodyLog) \/ last.err = SUCCESS)
                       <=> BodyLog[k].rx[Len(BodyLog[k].rx)]
                             = crc8(EntryData(BodyLog[k]), ChunkSeed(k))

(* A write of four chunks, and each seed after the first is an address;    *)
(* the first is the CRC-8 of the instruction byte 30 from 0xA5             *)
C12_Witness ==
    /\ CrcTransferDone
    /\ ~last.data.is_read
    /\ last.err = SUCCESS
    /\ Len(BodyLog) = 4
    /\ BodyLog[1].tx[1] = 30
    /\ BodyLog[1].crc_init = 40
    /\ BodyLog[2].crc_init = BodyLog[2].addr
    /\ BodyLog[4].crc_init = 27

(* Chip-select stays asserted after the exchange: the message's cs_change  *)
(* flag, which the bus primitive takes as its chip-select-hold input       *)
CsHeldAfter(e) == e.cs_change

(* C13: in a CRC-framed transfer that returns success, chip-select is held *)
(* after every chunk but the last and released after the last, whatever    *)
(* the start address and the byte length.                                  *)
C13_ChipSelectHeldToLastChunk ==
    CrcTransferDone /\ last.err = SUCCESS =>
        \A k \in 1..Len(BodyLog) :
            CsHeldAfter(BodyLog[k]) <=> k < Len(BodyLog)

(* A successful read of one byte from a 16-bit register: its only chunk    *)
(* ends past the length asked for and leaves chip-select held              *)
C13_NeverReleased ==
    /\ CrcTransferDone
    /\ last.err = SUCCESS
    /\ last.data.is_read
    /\ last.data.len = 1
    /\ Len(BodyLog) = 1
    /\ BodyLog[1].n = 2
    /\ CsHeldAfter(BodyLog[1])
---------------------------------------------------------------------------
(* The driver at large: register reads and writes, and transfers with and  *)
(* without a config override, over a bus on which one exchange may fail    *)

MaxSyncFault == 8    \* the failing exchange is one of the first MaxSyncFault

(* A register of the primary region and one of the secondary region *)
SpecAddrs == {AD3552R_REG_ADDR_INTERFACE_CONFIG_B, 44}

(* The config overrides: each field alone, and fields together *)
SyncCfgs ==
    {ZeroCfg,
     [ZeroCfg EXCEPT !.addr_asc = 1],
     [ZeroCfg EXCEPT !.single_instr = 1],
     [ZeroCfg EXCEPT !.stream_length_keep_value = 1],
     [ZeroCfg EXCEPT !.stream_mode_length = 2],
     [ZeroCfg EXCEPT !.stream_length_keep_value = 1,
                     !.stream_mode_length = 2],
     [addr_asc |-> 1, single_instr |-> 1, stream_mode_length |-> 2,
      stream_length_keep_value |-> 1]}

(* The bus error of the failing exchange *)
SpecBusErr == "EIO"

(* ad3552r_transfer with a config override *)
CfgTransfer ==
    \E cfg \in SyncCfgs, addr \in SpecAddrs, f \in 0..MaxSyncFault :
        DoTransfer(TransferData(addr, TRUE, _ad3552r_reg_len(addr), cfg),
                   [k \in 1..(_ad3552r_reg_len(addr)) |-> 0],
                   FaultScript(f, SpecBusErr))

(* ad3552r_transfer without one *)
RawTransfer ==
    \E addr \in SpecAddrs, f \in 0..1 :
        DoTransfer(TransferData(addr, TRUE, _ad3552r_reg_len(addr), NoCfg),
                   [k \in 1..(_ad3552r_reg_len(addr)) |-> 0],
                   FaultScript(f, SpecBusErr))

RegRead ==
    \E addr \in SpecAddrs, f \in 0..1 :
        DoReadReg(addr, FaultScript(f, SpecBusErr))

RegWrite ==
    \E f \in 0..1 : DoWriteReg(44, 4660, FaultScript(f, SpecBusErr))

Next ==
    \/ CfgTransfer
    \/ RawTransfer
    \/ RegRead
    \/ RegWrite
    \/ Return

Spec == InitPin(FALSE) /\ [][Next]_vars

(* A transfer with a config override has returned *)
SyncDone ==
    pc = "returned" /\ last.op = "transfer" /\ last.data.spi_cfg # NoCfg

SyncAttrs ==
    {"ADDR_ASCENSION", "SINGLE_INST", "STREAM_LENGTH_KEEP_VALUE",
     "STREAM_MODE"}

(* The field of a transfer config that an attribute stands for *)
CfgField(cfg, attr) ==
    CASE attr = "ADDR_ASCENSION" -> cfg.addr_asc
      [] attr = "SINGLE_INST" -> cfg.single_instr
      [] attr = "STREAM_LENGTH_KEEP_VALUE" -> cfg.stream_length_keep_value
      [] attr = "STREAM_MODE" -> cfg.stream_mode_length

(* The sync addressed the field's register: it set about updating it *)
SyncTouched(attr) ==
    \E k \in 1..SyncEnd : last.log[k].addr = AttrReg(attr)

(* The sync issued a write of the field's register *)
SyncWrote(attr) ==
    \E k \in 1..SyncEnd :
        last.log[k].addr = AttrReg(attr) /\ ~last.log[k].is_read

(* The read that precedes the write of the field's register failed *)
SyncReadFailed(attr) ==
    \E k \in 1..SyncEnd :
        /\ last.log[k].addr = AttrReg(attr)
        /\ last.log[k].is_read
        /\ last.log[k].err # SUCCESS

(* C7: no exchange addresses a register at or above 0x28 while the cached  *)
(* address-ascension flag is set, whichever operation issues it; a         *)
(* register read or write or a transfer that asks for one returns -EINVAL  *)
(* and makes no exchange.                                                  *)
C7_SecondaryRegionGuarded ==
    pc = "returned" =>
        /\ \A k \in 1..Len(last.log) :
              ~(last.log[k].addr >= AD3552R_SECONDARY_REGION_ADDR
                /\ last.log[k].asc # 0)
        /\ (last.op \in {"read_reg", "write_reg"}
            /\ last.addr >= AD3552R_SECONDARY_REGION_ADDR
            /\ last.cfg0.addr_asc # 0
               => last.err = "EINVAL" /\ last.log = <<>>)
        /\ (last.op = "transfer"
            /\ last.data.addr >= AD3552R_SECONDARY_REGION_ADDR
            /\ LastCfg.addr_asc # 0
               => last.err = "EINVAL" /\ BodyLog = <<>>)

(* A transfer that reached the secondary region with the flag set *)
C7_Reached ==
    /\ pc = "returned"
    /\ last.op = "transfer"
    /\ last.err = SUCCESS
    /\ \E k \in 1..Len(last.log) :
          /\ last.log[k].addr >= AD3552R_SECONDARY_REGION_ADDR
          /\ last.log[k].asc # 0

C9_SyncErrorSurfaced ==
    SyncDone =>
        /\ (last.syncErr # SUCCESS => last.err = last.syncErr)
        /\ (last.syncErr = SUCCESS /\ ~LogFaulty(BodyLog)
               => last.err = SUCCESS)

(* A transfer that returned success though the sync's last write failed *)
C9_Dropped ==
    /\ SyncDone
    /\ last.sync # <<>>
    /\ last.sync[Len(last.sync)].err = "EIO"
    /\ last.syncErr = "EIO"
    /\ last.err = SUCCESS


---------------------------------------------------------------------------
(* Register specification: registers of each width are written and read    *)
(* back, with and without CRC, against a device that stores what it is     *)
(* sent                                                                    *)

(* A register one byte wide, a 16-bit and a 24-bit one *)
RegAddrs == {30, 44, 61}

(* Values with bits in every nibble of the 16 the interface carries *)
RegVals == {0, 4660, 43981, 65535}

RegSwitchCrc == \E en \in {0, 1} : DoSetCrc(en, <<>>)

RegWriteVal == \E addr \in RegAddrs, v \in RegVals : DoWriteReg(addr, v, <<>>)

RegReadBack == ReadBack(<<>>)

NextReg ==
    \/ RegSwitchCrc
    \/ RegWriteVal
    \/ RegReadBack
    \/ Return

SpecReg == InitPin(FALSE) /\ [][NextReg]_vars

(* A register was written and read back, both with success *)
ReadBackDone ==
    /\ pc = "returned"
    /\ last.op = "read_back"
    /\ last.werr = SUCCESS
    /\ last.err = SUCCESS

---------------------------------------------------------------------------
(* Attribute specification: the device and channel attributes kept in a    *)
(* register field are set and read back, with and without CRC              *)

(* The sets made: each attribute of addr_mask_map that the public          *)
(* interface takes and each of addr_mask_map_ch, on both channels          *)
(* overall, with values inside and beyond the field's width                *)
DevSets ==
    {[attr |-> "SDO_DRIVE_STRENGTH", v |-> 2],
     [attr |-> "SDO_DRIVE_STRENGTH", v |-> 7],
     [attr |-> "VREF_SELECT", v |-> 1],
     [attr |-> "CRC_ENABLE", v |-> 0],
     [attr |-> "CRC_ENABLE", v |-> 1],
     [attr |-> "CRC_ENABLE", v |-> 2]}

ChSets ==
    {[attr |-> "CH_DAC_POWERDOWN", ch |-> 1, v |-> 0],
     [attr |-> "CH_DAC_POWERDOWN", ch |-> 1, v |-> 1],
     [attr |-> "CH_AMPLIFIER_POWERDOWN", ch |-> 0, v |-> 1],
     [attr |-> "CH_AMPLIFIER_POWERDOWN", ch |-> 0, v |-> 2],
     [attr |-> "CH_OUTPUT_RANGE_SEL", ch |-> 0, v |-> 3],
     [attr |-> "CH_OUTPUT_RANGE_SEL", ch |-> 1, v |-> 4],
     [attr |-> "CH_OUTPUT_RANGE_SEL", ch |-> 1, v |-> 21],
     [attr |-> "CH_TRIGGER_SOFTWARE_LDAC", ch |-> 0, v |-> 1],
     [attr |-> "CH_HW_LDAC_MASK", ch |-> 0, v |-> 1],
     [attr |-> "CH_SELECT", ch |-> 1, v |-> 1]}

AttrSetDev == \E s \in DevSets : DoSetDev(TRUE, s.attr, s.v, <<>>)

AttrSetCh == \E s \in ChSets : DoSetCh(TRUE, s.attr, s.ch, s.v, <<>>, NoUb)

AttrGetBack == GetBack(<<>>)

NextAttr ==
    \/ AttrSetDev
    \/ AttrSetCh
    \/ AttrGetBack
    \/ Return

SpecAttr == InitPin(FALSE) /\ [][NextAttr]_vars

(* An attribute was set and read back, the set with success *)
GetBackDone ==
    pc = "returned" /\ last.op = "get_back" /\ last.serr = SUCCESS

(* The mask of the attribute last set *)
LastMask ==
    IF last.kind = "dev" THEN AttrMask(last.attr)
    ELSE ChAttrMask(last.ch, last.attr)

(* ((v << shift) & mask) >> shift *)
FieldRoundTrip(mask, v) ==
    BitAnd(v * LowestSetBit(mask), mask) \div LowestSetBit(mask)

(* C15 as stated: for every attribute kept in a register field, a get that *)
(* follows a set of v returns ((v << shift) & mask) >> shift, and the set  *)
(* leaves the register's bits outside the mask as they were.               *)
C15_AttrRoundTrip ==
    GetBackDone =>
        /\ last.err = SUCCESS
        /\ last.val = FieldRoundTrip(LastMask, last.v)
        /\ BitClear(last.reg1, LastMask) = BitClear(last.reg0, LastMask)

(* C15, amended: the above holds for every such attribute but two.  The    *)
(* get of the software LDAC trigger, a write-only register, returns        *)
(* -EINVAL and makes no exchange.  CRC enable is set by writing the whole  *)
(* register with one of two values and reads back as 1 when v is not 0     *)
(* and as 0 when it is.                                                    *)
C15_AttrRoundTripButTwo ==
    GetBackDone =>
        CASE last.attr = "CH_TRIGGER_SOFTWARE_LDAC"
               -> /\ last.err = "EINVAL"
                  /\ last.log = <<>>
                  /\ BitClear(last.reg1, LastMask)
                        = BitClear(last.reg0, LastMask)
          [] last.attr = "CRC_ENABLE"
               -> /\ last.err = SUCCESS
                  /\ last.val = (IF last.v # 0 THEN 1 ELSE 0)
                  /\ last.reg1 = (IF last.v # 0 THEN AD3552R_CRC_ENABLE_VALUE
                                  ELSE AD3552R_CRC_DISABLE_VALUE)
          [] OTHER
               -> /\ last.err = SUCCESS
                  /\ last.val = FieldRoundTrip(LastMask, last.v)
                  /\ BitClear(last.reg1, LastMask)
                        = BitClear(last.reg0, LastMask)

(* The range of channel 1 set to 21 reads back as 5, and the range of      *)
(* channel 0, which shares the register, is 3 before and after             *)
C15_Witness ==
    /\ GetBackDone
    /\ last.attr = "CH_OUTPUT_RANGE_SEL"
    /\ last.ch = 1
    /\ last.v = 21
    /\ last.val = 5
    /\ last.reg0 % 16 = 3
    /\ last.reg1 = 83

---------------------------------------------------------------------------
(* Calibration specification: the attributes the scale and offset of a     *)
(* channel are derived from are set on both device variants                *)

ChipIds == {"AD3542R_ID", "AD3552R_ID"}

(* After ad3552r_init for either variant, without a reset pin *)
InitCal ==
    /\ desc \in {[InitDesc(FALSE) EXCEPT !.chip_id = id] : id \in ChipIds}
    /\ dev = DevDefaults
    /\ pc = "idle"
    /\ rst = RstIdle
    /\ last = NoOp

(* The attributes whose set recomputes scale and offset *)
CalAttrs ==
    {"CH_OUTPUT_RANGE_SEL", "CH_RFB"} \cup GainAttrs

(* The sets made: every range selector on channel 0 and one on channel 1,  *)
(* a resistance, a gain offset below and one above 255, both polarities,   *)
(* gain scalings inside the table and one beyond it                        *)
CalSets ==
    {[attr |-> "CH_OUTPUT_RANGE_SEL", ch |-> 0, v |-> v] : v \in 0..5}
    \cup {[attr |-> "CH_OUTPUT_RANGE_SEL", ch |-> 1, v |-> 4],
          [attr |-> "CH_RANGE_OVERRIDE", ch |-> 0, v |-> 0],
          [attr |-> "CH_RANGE_OVERRIDE", ch |-> 0, v |-> 1],
          [attr |-> "CH_RFB", ch |-> 0, v |-> 1],
          [attr |-> "CH_RFB", ch |-> 0, v |-> 2],
          [attr |-> "CH_GAIN_OFFSET", ch |-> 0, v |-> 100],
          [attr |-> "CH_GAIN_OFFSET", ch |-> 0, v |-> 300],
          [attr |-> "CH_GAIN_OFFSET_POLARITY", ch |-> 0, v |-> 0],
          [attr |-> "CH_GAIN_OFFSET_POLARITY", ch |-> 0, v |-> 1],
          [attr |-> "CH_GAIN_SCALING_P", ch |-> 0, v |-> 1],
          [attr |-> "CH_GAIN_SCALING_P", ch |-> 0, v |-> 4],
          [attr |-> "CH_GAIN_SCALING_N", ch |-> 0, v |-> 2]}

(* What the build makes of a division by zero: a trap, or a value *)
DivZeroOutcomes == {NoUb, [trap |-> TRUE, word |-> 0]}

CalSet ==
    \E s \in CalSets, ub \in DivZeroOutcomes :
        DoSetCh(TRUE, s.attr, s.ch, s.v, <<>>, ub)

NextCal ==
    \/ CalSet
    \/ Return

SpecCal == InitCal /\ [][NextCal]_vars

(* A set of one of these attributes returned with success *)
CalSetDone ==
    /\ pc = "returned"
    /\ last.op = "set"
    /\ last.kind = "ch"
    /\ last.attr \in CalAttrs
    /\ last.err = SUCCESS

(* The range selector was set, the channel using the preset ranges *)
PresetSetDone ==
    /\ CalSetDone
    /\ last.attr = "CH_OUTPUT_RANGE_SEL"
    /\ desc.ch_data[last.ch].range_override = 0

(* The entry of the variant's table for range selector idx *)
PresetRange(id, idx) ==
    IF id = "AD3542R_ID" THEN ad3542r_ch_ranges[idx + 1]
    ELSE ad3552r_ch_ranges[idx + 1]

(* The row of the table the channel last set uses *)
LastPreset == PresetRange(desc.chip_id, desc.ch_data[last.ch].range)

(* The scale in millionths of a millivolt per code *)
ScaleMicro(c) == c.scale_int * 1000000 + c.scale_dec

(* |scale * 65536 - span| in units of 64 millionths of a millivolt *)
ScaleErr64(c, span) == CAbs(ScaleMicro(c) * 1024 - span * 15625)

(* |offset * scale - v_min| in the same units, for an offset that is a     *)
(* whole multiple of 64 codes                                              *)
OffsetErr64(c, v_min) ==
    CAbs((c.offset_int \div 64) * ScaleMicro(c) - v_min * 15625)

(* The offset is 65536 * v_min / span without a remainder *)
OffsetExact(c, v_min, span) ==
    /\ c.offset_dec = 0
    /\ c.offset_int * span = v_min * 65536
    /\ c.offset_int % 64 = 0

(* C16 as stated: for every preset range of both variants, scale * 65536   *)
(* is within one microvolt (1000 millionths of a millivolt) of Vmax - Vmin *)
(* and offset * scale within one microvolt of Vmin.                        *)
C16_PresetsWithinMicrovolt ==
    PresetSetDone =>
        /\ 64 * ScaleErr64(desc.ch_data[last.ch],
                           LastPreset[2] - LastPreset[1]) <= 1000
        /\ 64 * OffsetErr64(desc.ch_data[last.ch], LastPreset[1]) <= 1000

(* C16, amended: for every preset range of both variants the scale is      *)
(* within half a millionth of (Vmax - Vmin) / 65536 and the offset is      *)
(* 65536 * Vmin / (Vmax - Vmin) exactly; scale * 65536 is then within 33   *)
(* microvolts of Vmax - Vmin and offset * scale within 17 microvolts of    *)
(* Vmin.                                                                   *)
C16_PresetsWithinHalfMicroUnit ==
    PresetSetDone =>
        /\ desc.ch_data[last.ch].range
              = last.v % (AD3552R_RANGE_MAX_VALUE(desc.chip_id) + 1)
        /\ ScaleErr64(desc.ch_data[last.ch],
                      LastPreset[2] - LastPreset[1]) <= 512
        /\ OffsetExact(desc.ch_data[last.ch], LastPreset[1],
                       LastPreset[2] - LastPreset[1])
        /\ 64 * ScaleErr64(desc.ch_data[last.ch],
                           LastPreset[2] - LastPreset[1]) <= 33000
        /\ 64 * OffsetErr64(desc.ch_data[last.ch], LastPreset[1]) <= 17000

(* The 0 V to 3 V range of the AD3542R: the scale is 0.045776, which makes *)
(* 2999.976 mV of the span                                                 *)
C16_Witness ==
    /\ PresetSetDone
    /\ desc.chip_id = "AD3542R_ID"
    /\ LastPreset = <<0, 3000>>
    /\ desc.ch_data[last.ch].scale_int = 0
    /\ desc.ch_data[last.ch].scale_dec = 45776
    /\ 64 * ScaleErr64(desc.ch_data[last.ch], 3000) > 23000

(* The gain offset G kept for channel data c: its magnitude with the sign  *)
(* of the polarity                                                         *)
SignedGainOffset(c) == IF c.offset_polarity # 0 THEN -c.offset ELSE c.offset

(* <<Vmin, Vmax>> of the calibration formulas for the values kept in c *)
ClaimedRange(id, c) ==
    IF c.range_override # 0
    THEN ad3552r_get_custom_range(
             [c EXCEPT !.gain_offset = SignedGainOffset(c)])
    ELSE PresetRange(id, c.range)

(* The derived constants of channel data c *)
Derived(c) == <<c.scale_int, c.scale_dec, c.offset_int, c.offset_dec>>

(* The field of the channel data a set of attr is kept in *)
CalField(attr) ==
    CASE attr = "CH_OUTPUT_RANGE_SEL" -> "range"
      [] attr = "CH_RFB" -> "rfb"
      [] attr = "CH_RANGE_OVERRIDE" -> "range_override"
      [] attr = "CH_GAIN_OFFSET" -> "offset"
      [] attr = "CH_GAIN_OFFSET_POLARITY" -> "offset_polarity"
      [] attr = "CH_GAIN_SCALING_P" -> "p"
      [] attr = "CH_GAIN_SCALING_N" -> "n"

(* The value of attr that a set of v makes current *)
CalValue(id, attr, v) ==
    CASE attr = "CH_OUTPUT_RANGE_SEL" -> v % (AD3552R_RANGE_MAX_VALUE(id) + 1)
      [] attr \in {"CH_RANGE_OVERRIDE", "CH_GAIN_OFFSET_POLARITY"}
           -> IF v # 0 THEN 1 ELSE 0
      [] OTHER -> v

(* The set last made is kept as the current value of its attribute, and    *)
(* the values of the other attributes are those of before                  *)
LatestKept ==
    /\ desc.ch_data[last.ch][CalField(last.attr)]
          = CalValue(desc.chip_id, last.attr, last.v)
    /\ \A a \in CalAttrs \ {last.attr} :
           desc.ch_data[last.ch][CalField(a)]
              = last.desc0.ch_data[last.ch][CalField(a)]

(* The stored scale and offset are those of range rg *)
DerivedFrom(c, rg) ==
    rg[2] # rg[1] => Derived(c) = Derived(CalcStore(c, rg[1], rg[2] - rg[1]))

(* C17: after a successful set of range, range override, feedback          *)
(* resistance, gain offset, offset polarity or gain scaling, the values    *)
(* most recently set are the current ones and the stored scale and offset  *)
(* are the calibration formulas applied to them: the preset table without  *)
(* override, the custom formula with R, signed G, GainP and GainN with it. *)
C17_CalibrationFollowsSets ==
    CalSetDone =>
        /\ LatestKept
        /\ DerivedFrom(desc.ch_data[last.ch],
                       ClaimedRange(desc.chip_id, desc.ch_data[last.ch]))

(* With override on and a resistance of 1, a gain offset of 100 was set:   *)
(* the formulas give Vmin = 2500 - (1024000 - 100000) * 2575 / 1024000 =   *)
(* 177, the stored constants are still those of a gain offset of 0         *)
C17_GainOffsetIgnored ==
    /\ CalSetDone
    /\ last.attr = "CH_GAIN_OFFSET"
    /\ last.v = 100
    /\ desc.ch_data[0].range_override = 1
    /\ desc.ch_data[0].rfb = 1
    /\ desc.ch_data[0].offset_polarity = 0
    /\ desc.ch_data[0].p = 0
    /\ ClaimedRange(desc.chip_id, desc.ch_data[0])[1] = 177
    /\ Derived(desc.ch_data[0]) = Derived(last.desc0.ch_data[0])
    /\ Derived(desc.ch_data[0])
          = Derived(CalcStore(desc.ch_data[0], -75, 5150))

---------------------------------------------------------------------------
(* Sample specification: codes are written to one channel or to both, in   *)
(* fast and in precision mode, with and without CRC and LDAC pin           *)

(* After ad3552r_init on a board with (pin) or without an LDAC pin *)
InitSamples ==
    /\ desc \in {[InitDesc(FALSE) EXCEPT !.ldac = pin] : pin \in BOOLEAN}
    /\ dev = DevDefaults
    /\ pc = "idle"
    /\ rst = RstIdle
    /\ last = NoOp

(* The caller's samples: channel 0's code, then channel 1's, per sample *)
SampleData == <<43981, 4660, 65535, 15>>

(* The number of the exchange that fails is at most this (0: none fails) *)
MaxSampleFault == 2

SampFast ==
    \E ch \in Channels, v \in {0, 1} :
        DoSetCh(TRUE, "CH_FAST_EN", ch, v, <<>>, NoUb)

SampCrc == \E en \in {0, 1} : DoSetCrc(en, <<>>)

SampWrite ==
    \E samples \in 1..2, ch_mask \in 1..AD3552R_MASK_ALL_CH,
       mode \in WriteModes, f \in 0..MaxSampleFault :
        DoWriteSamples(SampleData, samples, ch_mask, mode,
                       FaultScript(f, SpecBusErr))

(* A configuration step has returned; the caller goes on *)
SampReturn == last.op # "write_samples" /\ Return

(* After a write of samples the board is power-cycled and initialised      *)
(* again: every write of samples meets the device as ad3552r_init and the  *)
(* configuration steps left it                                             *)
SampRestart ==
    /\ pc = "returned"
    /\ last.op = "write_samples"
    /\ desc' = [InitDesc(FALSE) EXCEPT !.ldac = desc.ldac]
    /\ dev' = DevDefaults
    /\ pc' = "idle"
    /\ last' = NoOp
    /\ UNCHANGED rst

NextSamples ==
    \/ SampFast
    \/ SampCrc
    \/ SampWrite
    \/ SampReturn
    \/ SampRestart

SpecSamples == InitSamples /\ [][NextSamples]_vars

(* The data bytes a write exchange carried *)
EntryWritten(e) == BufGet(IF e.first THEN Tail(e.tx) ELSE e.tx, 0, e.n)

(* The data bytes of the exchanges of a log, in the order sent *)
RECURSIVE LogWritten(_)
LogWritten(log) ==
    IF log = <<>> THEN <<>>
    ELSE EntryWritten(Head(log)) \o LogWritten(Tail(log))

(* Both channels were written in one burst per sample, with success *)
BurstDone ==
    /\ pc = "returned"
    /\ last.op = "write_samples"
    /\ last.ch_mask = AD3552R_MASK_ALL_CH
    /\ last.err = SUCCESS

(* A 16-bit code with its low 4 bits cleared, as two bytes *)
Truncated12(code) == put_unaligned_be16(BitAnd(code, AD3552R_MASK_DAC_12B))

(* The bytes the first burst is to carry for codes d0 and d1 *)
BurstCodes(is_fast, d0, d1) ==
    IF is_fast # 0 THEN Truncated12(d0) \o Truncated12(d1)
    ELSE put_unaligned_be16(d0) \o <<0>> \o put_unaligned_be16(d1) \o <<0>>

(* C18: when both channels are written in one burst, the bytes sent carry  *)
(* each of the two codes with its low 4 bits cleared in fast mode, and     *)
(* both codes in full in precision mode.                                   *)
C18_BurstCodesTruncatedInFastMode ==
    BurstDone =>
        BufGet(LogWritten(last.log), 0,
               IF last.desc0.ch_data[0].fast_en # 0 THEN 4 ELSE 6)
          = BurstCodes(last.desc0.ch_data[0].fast_en,
                       last.data[1], last.data[2])

(* In fast mode the burst carries AB C0 for the code ABCD, and 12 34 for   *)
(* the code 1234: the low 4 bits of the second code are sent               *)
C18_SecondCodeSentInFull ==
    /\ BurstDone
    /\ last.desc0.ch_data[0].fast_en = 1
    /\ last.crc = 0
    /\ Len(last.log) = 1
    /\ last.log[1].tx = <<44, 171, 192, 18, 52>>

(* Samples were written in the mode that triggers LDAC, with success *)
TriggerDone ==
    /\ pc = "returned"
    /\ last.op = "write_samples"
    /\ last.mode = "AD3552R_WRITE_INPUT_REGS_AND_TRIGGER_LDAC"
    /\ last.err = SUCCESS

(* The number of software LDAC triggers among the bytes of the write       *)
(* exchange e: bytes other than 0 that the device takes for one of the     *)
(* software LDAC registers, when the transfer that e belongs to started at *)
(* address start and off bytes of it went before e.  The addresses of a    *)
(* transfer descend.                                                       *)
EntrySwLdac(e, start, off) ==
    IF e.is_read THEN 0
    ELSE Cardinality({j \in 0..(e.n - 1) :
                         /\ (start - off) - j
                               \in {AD3552R_REG_ADDR_SW_LDAC_16B,
                                    AD3552R_REG_ADDR_SW_LDAC_24B}
                         /\ EntryWritten(e)[j + 1] # 0})

(* The exchange e starts a transfer: with CRC a transfer is sent in one    *)
(* exchange per register                                                   *)
EntryStarts(e) == ~e.framed \/ e.first

(* The address in the instruction byte of an exchange that starts a        *)
(* transfer                                                                *)
EntryInstrAddr(e) ==
    IF e.framed THEN BitAnd(e.tx[1], AD3552R_ADDR_MASK) ELSE e.addr

(* The software LDAC triggers the exchanges of a log wrote; start and off  *)
(* as above, for the transfer under way                                    *)
RECURSIVE SwLdacFrom(_, _, _)
SwLdacFrom(log, start, off) ==
    IF log = <<>> THEN 0
    ELSE IF EntryStarts(Head(log))
    THEN EntrySwLdac(Head(log), EntryInstrAddr(Head(log)), 0)
           + SwLdacFrom(Tail(log), EntryInstrAddr(Head(log)), Head(log).n)
    ELSE EntrySwLdac(Head(log), start, off)
           + SwLdacFrom(Tail(log), start, off + Head(log).n)

SwLdacWrites(log) == SwLdacFrom(log, 0, 0)

(* The exchanges of sample k (1, 2, ...): every sample takes as many *)
SampleLog(k) ==
    SubSeq(last.log,
           (k - 1) * (Len(last.log) \div last.samples) + 1,
           k * (Len(last.log) \div last.samples))

(* The LDAC pin was pulsed once per sample, low then high, each pulse      *)
(* behind the exchanges of its sample                                      *)
PulsedPerSample ==
    /\ Len(last.gpio) = 2 * last.samples
    /\ \A k \in 1..last.samples :
           /\ last.gpio[2 * k - 1]
                = [pin |-> "ldac", value |-> "GPIO_LOW",
                   at |-> k * (Len(last.log) \div last.samples)]
           /\ last.gpio[2 * k]
                = [pin |-> "ldac", value |-> "GPIO_HIGH",
                   at |-> k * (Len(last.log) \div last.samples)]

(* C22: in the mode that writes the input registers and triggers LDAC,     *)
(* every sample written causes exactly one LDAC trigger, after its code    *)
(* bytes and before the next sample's: one low-then-high pulse of the pin  *)
(* and no software LDAC write when the pin is present, exactly one         *)
(* software LDAC write otherwise.                                          *)
C22_OneTriggerPerSample ==
    TriggerDone =>
        IF last.desc0.ldac
        THEN PulsedPerSample /\ SwLdacWrites(last.log) = 0
        ELSE /\ last.gpio = <<>>
             /\ \A k \in 1..last.samples :
                    /\ SwLdacWrites(SampleLog(k)) = 1
                    /\ SwLdacWrites(<<SampleLog(k)[Len(SampleLog(k))]>>) = 1

(* Without an LDAC pin one sample for both channels was sent in precision  *)
(* mode as a burst that ends in the software LDAC register, and the        *)
(* trigger was then written once more: two triggers for one sample         *)
C22_TriggeredTwice ==
    /\ TriggerDone
    /\ ~last.desc0.ldac
    /\ last.ch_mask = AD3552R_MASK_ALL_CH
    /\ last.samples = 1
    /\ last.crc = 0
    /\ Len(last.log) = 2
    /\ last.log[1].addr = AD3552R_REG_ADDR_CH_INPUT_24B(1)
    /\ last.log[1].n = 7
    /\ EntryWritten(last.log[1])[7] = AD3552R_MASK_ALL_CH
    /\ last.log[2].addr = AD3552R_REG_ADDR_SW_LDAC_24B
    /\ SwLdacWrites(last.log) = 2

(* Both channels were to be written while one was in fast mode and the     *)
(* other in precision mode                                                 *)
MixedBurstCall ==
    /\ pc = "returned"
    /\ last.op = "write_samples"
    /\ last.ch_mask = AD3552R_MASK_ALL_CH
    /\ last.desc0.ch_data[0].fast_en # last.desc0.ch_data[1].fast_en

(* C23: ad3552r_write_samples called for both channels while the two       *)
(* channels have different fast-mode settings returns invalid-argument     *)
(* and makes no bus exchange.                                              *)
C23_MixedFastModeRejected ==
    MixedBurstCall => last.err = "EINVAL" /\ last.log = <<>>

(* With channel 0 in fast and channel 1 in precision mode, both were       *)
(* written as a fast-mode burst and the call returned success              *)
C23_MixedBurstSent ==
    /\ MixedBurstCall
    /\ last.desc0.ch_data[0].fast_en = 1
    /\ last.desc0.ch_data[1].fast_en = 0
    /\ last.mode = "AD3552R_WRITE_DAC_REGS"
    /\ last.crc = 0
    /\ last.samples = 1
    /\ last.err = SUCCESS
    /\ Len(last.log) = 1
    /\ last.log[1].addr = AD3552R_REG_ADDR_CH_DAC_16B(1)
    /\ last.log[1].n = 4

---------------------------------------------------------------------------
(* Failure specification: every public operation is called with one bus    *)
(* exchange failing, with and without CRC, on a board without reset and    *)
(* LDAC pins                                                               *)

(* The number of the exchange that fails is at most this (0: none fails);  *)
(* ad3552r_init makes 21 exchanges on this board                           *)
MaxInitFault == 22

(* ... and in the other operations, which make 3 exchanges or fewer but    *)
(* for ad3552r_reset, which makes 6                                        *)
MaxOpFault == 7

(* struct ad3552r_init_param with preset ranges *)
FailChannel(en, range) == [en |-> en, fast_en |-> 0, range |-> range]

FailParams ==
    {[chip_id |-> id, crc_en |-> crc, reset_pin |-> FALSE,
      ldac_pin |-> FALSE, use_external_vref |-> FALSE,
      vref_out_enable |-> TRUE, sdo_drive_strength |-> 1,
      channels |-> [ch \in Channels |->
                       IF ch = 0 THEN FailChannel(TRUE, 2)
                       ELSE FailChannel(en1, 4)]] :
        id \in ChipIds, crc \in {0, 1}, en1 \in BOOLEAN}

FailCrc == \E en \in {0, 1} : DoSetCrc(en, <<>>)

FailReadReg ==
    \E addr \in RegAddrs, f \in 0..MaxOpFault :
        DoReadReg(addr, FaultScript(f, SpecBusErr))

FailWriteReg ==
    \E addr \in RegAddrs, f \in 0..MaxOpFault :
        DoWriteReg(addr, 4660, FaultScript(f, SpecBusErr))

FailSetDev ==
    \E s \in DevSets, f \in 0..MaxOpFault :
        DoSetDev(TRUE, s.attr, s.v, FaultScript(f, SpecBusErr))

FailSetCh ==
    \E s \in ChSets \cup {[attr |-> "CH_CODE", ch |-> 1, v |-> 4660],
                          [attr |-> "CH_GAIN_OFFSET", ch |-> 0, v |-> 300]},
       f \in 0..MaxOpFault :
        DoSetCh(TRUE, s.attr, s.ch, s.v, FaultScript(f, SpecBusErr), NoUb)

FailGetDev ==
    \E s \in DevSets, f \in 0..MaxOpFault :
        DoGetDev(TRUE, s.attr, FaultScript(f, SpecBusErr))

FailGetCh ==
    \E s \in ChSets \cup {[attr |-> "CH_CODE", ch |-> 1, v |-> 0],
                          [attr |-> "CH_GAIN_OFFSET", ch |-> 0, v |-> 0]},
       f \in 0..MaxOpFault :
        DoGetCh(TRUE, s.attr, s.ch, FaultScript(f, SpecBusErr), NoUb)

FailReset == \E f \in 0..MaxOpFault : DoReset(FaultScript(f, SpecBusErr))

FailWriteSamples ==
    \E samples \in 1..2, ch_mask \in 1..AD3552R_MASK_ALL_CH,
       mode \in WriteModes, f \in 0..MaxOpFault :
        DoWriteSamples(SampleData, samples, ch_mask, mode,
                       FaultScript(f, SpecBusErr))

FailInit ==
    \E param \in FailParams, f \in 0..MaxInitFault :
        DoInit(param, FaultScript(f, SpecBusErr))

(* CRC has been switched; the caller goes on *)
FailReturn == last.op = "set_crc" /\ Return

(* After any other operation the board is power-cycled and initialised     *)
(* again: every operation meets the device as ad3552r_init left it, with   *)
(* CRC on or off                                                           *)
FailRestart ==
    /\ pc = "returned"
    /\ last.op # "set_crc"
    /\ desc' = InitDesc(FALSE)
    /\ dev' = DevDefaults
    /\ pc' = "idle"
    /\ last' = NoOp
    /\ UNCHANGED rst

NextFail ==
    \/ FailCrc
    \/ FailReadReg
    \/ FailWriteReg
    \/ FailSetDev
    \/ FailSetCh
    \/ FailGetDev
    \/ FailGetCh
    \/ FailReset
    \/ FailWriteSamples
    \/ FailInit
    \/ FailReturn
    \/ FailRestart

SpecFail == InitPin(FALSE) /\ [][NextFail]_vars

(* The operations the claim is about; the CRC switch of this               *)
(* specification is an attribute set as well                               *)
FailOps == {"read_reg", "write_reg", "set", "get", "reset",
            "write_samples", "init", "set_crc"}

(* Exchange k of the log failed on the bus *)
BusFailedAt(log, k) == log[k].err # SUCCESS

(* The operation stopped at the failed exchange k and returned its error *)
StoppedAt(l, k) == k = Len(l.log) /\ l.err = l.log[k].err

(* C19: when a bus exchange of a public operation (register read or write, *)
(* attribute get or set, reset, write samples, init) fails, the operation  *)
(* makes no further exchange and returns the error code the bus reported.  *)
C19_BusErrorStopsAndPropagates ==
    (pc = "returned" /\ last.op \in FailOps)
        => \A k \in 1..Len(last.log) :
               BusFailedAt(last.log, k) => StoppedAt(last, k)

(* ad3552r_init stopped at a failed exchange inside                        *)
(* ad3552r_configure_device, and returned -ENODEV, not the bus's error     *)
C19_InitReplacesBusError ==
    /\ pc = "returned"
    /\ last.op = "init"
    /\ Len(last.log) > 13
    /\ last.log[Len(last.log)].err = SpecBusErr
    /\ last.err = "ENODEV"

---------------------------------------------------------------------------
(* Argument specification: the channel-scoped entry points are called with *)
(* and without a handle, for the channels 0 and 1 and for indices outside  *)
(* the array                                                               *)

(* Channel indices passed: the two channels, the first index behind the    *)
(* array, and a larger one                                                 *)
ArgChannels == {0, 1, 2, 5}

(* What the build finds behind ch_data[] and behind a row of               *)
(* addr_mask_map_ch: some word, here one of two masks                      *)
ArgUbs == {[trap |-> FALSE, word |-> w] : w \in {24, 255}}

ArgAttrs == {"CH_FAST_EN", "CH_CODE", "CH_RFB", "CH_OUTPUT_RANGE_SEL",
             "CH_GAIN_OFFSET", "CH_DAC_POWERDOWN"}

ArgSetCh ==
    \E h \in BOOLEAN, attr \in ArgAttrs, ch \in ArgChannels, ub \in ArgUbs :
        DoSetCh(h, attr, ch, 1, <<>>, ub)

ArgGetCh ==
    \E h \in BOOLEAN, attr \in ArgAttrs, ch \in ArgChannels, ub \in ArgUbs :
        DoGetCh(h, attr, ch, <<>>, ub)

ArgGetCal ==
    \E which \in {"scale", "offset"}, h \in BOOLEAN, ch \in ArgChannels :
        DoGetCal(which, h, ch)

(* The call set the range or the fast mode of one of the two channels *)
ArgConfigured ==
    /\ last.op = "set"
    /\ last.h
    /\ last.ch \in Channels
    /\ last.attr \in {"CH_OUTPUT_RANGE_SEL", "CH_FAST_EN"}

(* A configuration step has returned; the caller goes on *)
ArgReturn == ArgConfigured /\ Return

(* After any other call the board is power-cycled and initialised again:   *)
(* every call meets the driver as ad3552r_init and the configuration steps *)
(* left it                                                                 *)
ArgRestart ==
    /\ pc = "returned"
    /\ ~ArgConfigured
    /\ desc' = InitDesc(FALSE)
    /\ dev' = DevDefaults
    /\ pc' = "idle"
    /\ last' = NoOp
    /\ UNCHANGED rst

NextArgs ==
    \/ ArgSetCh
    \/ ArgGetCh
    \/ ArgGetCal
    \/ ArgReturn
    \/ ArgRestart

SpecArgs == InitPin(FALSE) /\ [][NextArgs]_vars

(* A channel-scoped entry point has returned from a call with a null       *)
(* handle or a channel index outside {0, 1}                                *)
BadChannelCall ==
    /\ pc = "returned"
    /\ \/ last.op \in {"set", "get"} /\ last.kind = "ch"
       \/ last.op = "get_cal"
    /\ (~last.h \/ last.ch \notin Channels)

(* C20: ad3552r_get_ch_value, ad3552r_set_ch_value, ad3552r_get_scale and  *)
(* ad3552r_get_offset, called with a null handle or with a channel index   *)
(* outside {0, 1}, return invalid-argument, make no bus exchange and leave *)
(* the driver state unchanged.                                             *)
C20_BadChannelRejected ==
    BadChannelCall
        => /\ last.err = "EINVAL"
           /\ last.log = <<>>
           /\ desc = last.desc0

(* ad3552r_get_ch_value(desc, AD3552R_CH_CODE, 2, &val) has read the       *)
(* device and returned success                                             *)
C20_CodeReadForChannelTwo ==
    /\ pc = "returned"
    /\ last.op = "get"
    /\ last.kind = "ch"
    /\ last.h
    /\ last.attr = "CH_CODE"
    /\ last.ch = 2
    /\ last.err = SUCCESS
    /\ Len(last.log) = 1

---------------------------------------------------------------------------
(* Field specification: _ad3552r_update_reg_field as its callers reach it  *)
(* through ad3552r_set_dev_value and ad3552r_set_ch_value, with and        *)
(* without CRC, with a failing or a corrupted exchange                     *)

(* The attributes of addr_mask_map but CRC enable, which is not set by a   *)
(* field update                                                            *)
FieldDevAttrs ==
    {"ADDR_ASCENSION", "SINGLE_INST", "STREAM_MODE",
     "STREAM_LENGTH_KEEP_VALUE", "SDO_DRIVE_STRENGTH", "VREF_SELECT"}

(* Values inside and beyond a field's width *)
FieldVals == {0, 1, 3, 165, 300}

(* The bus during the update: exchange 1 or 2 fails, or the data byte of   *)
(* the first exchange arrives with a bit flipped (behind the dummy byte    *)
(* when the exchange is framed)                                            *)
FieldScripts(crc) ==
    {FaultScript(f, SpecBusErr) : f \in 0..MaxFaultPos}
        \cup {<<[OkRsp EXCEPT !.flipPos = IF crc # 0 THEN 2 ELSE 1,
                              !.flipMask = 4]>>}

FieldCrc == \E en \in {0, 1} : DoSetCrc(en, <<>>)

FieldSetDev ==
    \E attr \in FieldDevAttrs, v \in FieldVals,
       script \in FieldScripts(desc.crc_en) :
        DoSetDev(TRUE, attr, v, script)

FieldSetCh ==
    \E attr \in ChMapAttrs, ch \in Channels, v \in FieldVals,
       script \in FieldScripts(desc.crc_en) :
        DoSetCh(TRUE, attr, ch, v, script, NoUb)

(* CRC has been switched; the caller goes on *)
FieldReturn == last.op = "set_crc" /\ Return

(* After a field update the board is power-cycled and initialised again *)
FieldRestart ==
    /\ pc = "returned"
    /\ last.op # "set_crc"
    /\ desc' = InitDesc(FALSE)
    /\ dev' = DevDefaults
    /\ pc' = "idle"
    /\ last' = NoOp
    /\ UNCHANGED rst

NextField ==
    \/ FieldCrc
    \/ FieldSetDev
    \/ FieldSetCh
    \/ FieldReturn
    \/ FieldRestart

SpecField == InitPin(FALSE) /\ [][NextField]_vars

(* A field update has returned *)
FieldUpdated == pc = "returned" /\ last.op = "set"

(* The register of the attribute last set, and its full-width mask *)
LastReg == AnyAttrReg(last.kind, last.attr)

LastFullWidth == 2 ^ (8 * _ad3552r_reg_len(LastReg)) - 1

(* The register access e, a read, failed: on the bus, or by its CRC *)
ReadFailed(e) == e.err # SUCCESS \/ (e.framed /\ e.rx # e.sent)

(* e is a write of the one byte b to the register last set *)
WroteByte(e, b) ==
    /\ ~e.is_read
    /\ e.addr = LastReg
    /\ EntryWritten(e) = <<b % 256>>

(* The byte a read-modify-write of the value old puts back *)
FieldMerged(old) ==
    BitOr(BitClear(old, LastMask), field_prep(LastMask, last.v))

(* C21: a field update whose mask is the register's full-width mask makes  *)
(* exactly one register write and no read; with any other mask it makes    *)
(* one read, then one write of the value read with the masked bits cleared *)
(* and the new value, shifted to the mask's lowest set bit and masked, put *)
(* in; it makes no write when the read fails.                              *)
C21_FieldUpdateAccesses ==
    FieldUpdated =>
        IF LastMask = LastFullWidth
        THEN /\ Len(last.log) = 1
             /\ WroteByte(last.log[1], last.v)
        ELSE /\ Len(last.log) >= 1
             /\ last.log[1].is_read
             /\ last.log[1].addr = LastReg
             /\ IF ReadFailed(last.log[1])
                THEN Len(last.log) = 1 /\ last.err # SUCCESS
                ELSE /\ Len(last.log) = 2
                     /\ WroteByte(last.log[2],
                                  FieldMerged(EntryData(last.log[1])[1]))

(* The stream length, whose mask is the whole register, was written with   *)
(* one access                                                              *)
C21_WitnessFull ==
    /\ FieldUpdated
    /\ last.attr = "STREAM_MODE"
    /\ last.v = 165
    /\ last.err = SUCCESS
    /\ Len(last.log) = 1
    /\ last.reg1 = 165

---------------------------------------------------------------------------
(* Switch specification: CRC is switched on and off, over a bus that may   *)
(* fail or corrupt the switching write, and a register is read after it    *)

(* The bus during the switch: the exchange fails, or a byte of it (the     *)
(* data byte when CRC is off, the CRC byte when on) arrives corrupted      *)
SwitchScripts ==
    {FaultScript(f, SpecBusErr) : f \in 0..1}
        \cup {<<[OkRsp EXCEPT !.flipPos = p, !.flipMask = 1]>> : p \in 2..3}

SwitchSet ==
    \E en \in {0, 1}, script \in SwitchScripts : DoSetCrc(en, script)

SwitchWrite ==
    \E addr \in RegAddrs, f \in 0..1 :
        DoWriteReg(addr, 4660, FaultScript(f, SpecBusErr))

SwitchRead ==
    \E addr \in RegAddrs, f \in 0..1 :
        ReadAfterSetCrc(addr, FaultScript(f, SpecBusErr))

NextSwitch ==
    \/ SwitchSet
    \/ SwitchWrite
    \/ SwitchRead
    \/ Return

SpecSwitch == InitPin(FALSE) /\ [][NextSwitch]_vars

(* The mode the driver is in after a set of en that returned err, when it  *)
(* was in mode crc0 before                                                 *)
ModeAfter(crc0, en, err) == IF err = SUCCESS THEN en ELSE crc0

(* Every exchange of the log was framed with CRC, or none was *)
AllFramed(log, crc) == \A k \in 1..Len(log) : log[k].framed = (crc # 0)

(* C24: a set of CRC enable changes crc_en only after the register write   *)
(* that switches the device has succeeded: that write is framed in the     *)
(* mode in force before the call, every later transfer in the new mode,    *)
(* and when the write fails crc_en keeps its previous value.               *)
C24_ModeFollowsSwitchWrite ==
    /\ (pc = "returned" /\ last.op = "set_crc")
          => /\ Len(last.log) = 1
             /\ ~last.log[1].is_read
             /\ AllFramed(last.log, last.crc)
             /\ desc.crc_en = ModeAfter(last.crc, last.en, last.err)
    /\ (pc = "returned" /\ last.op = "read_after_crc")
          => /\ Len(last.log) = 1
             /\ AllFramed(last.log,
                          ModeAfter(last.crc0, last.en, last.serr))

(* CRC was switched on by an unframed write, and the read that followed    *)
(* was framed                                                              *)
C24_Witness ==
    /\ pc = "returned"
    /\ last.op = "read_after_crc"
    /\ last.crc0 = 0
    /\ last.en = 1
    /\ last.serr = SUCCESS
    /\ last.err = SUCCESS
    /\ last.log[1].framed
    /\ desc.crc_en = 1

---------------------------------------------------------------------------
(* Gain specification: the gain attributes of channel 0 are set, with and  *)
(* without a failing exchange                                              *)

(* The number of the exchange that fails is at most this (0: none fails);  *)
(* a set of the gain offset makes 3 exchanges, the other sets 2            *)
MaxGainFault == 3

(* The sets made: a resistance, the override on and off, a gain offset     *)
(* above 255, a polarity, gain scalings inside the table and beyond it     *)
GainSets ==
    {[attr |-> "CH_RFB", v |-> 1],
     [attr |-> "CH_RANGE_OVERRIDE", v |-> 0],
     [attr |-> "CH_RANGE_OVERRIDE", v |-> 1],
     [attr |-> "CH_GAIN_OFFSET", v |-> 300],
     [attr |-> "CH_GAIN_OFFSET_POLARITY", v |-> 1],
     [attr |-> "CH_GAIN_SCALING_P", v |-> 1],
     [attr |-> "CH_GAIN_SCALING_P", v |-> 4],
     [attr |-> "CH_GAIN_SCALING_N", v |-> 2],
     [attr |-> "CH_GAIN_SCALING_N", v |-> 5]}

GainSetCh ==
    \E s \in GainSets, f \in 0..MaxGainFault, ub \in DivZeroOutcomes :
        DoSetCh(TRUE, s.attr, 0, s.v, FaultScript(f, SpecBusErr), ub)

(* A set has returned with success; the caller goes on *)
GainReturn == last.err = SUCCESS /\ Return

(* After a set that returned an error the board is power-cycled and        *)
(* initialised again                                                       *)
GainRestart ==
    /\ pc = "returned"
    /\ last.err # SUCCESS
    /\ desc' = InitDesc(FALSE)
    /\ dev' = DevDefaults
    /\ pc' = "idle"
    /\ last' = NoOp
    /\ UNCHANGED rst

NextGain ==
    \/ GainSetCh
    \/ GainReturn
    \/ GainRestart

SpecGain == InitPin(FALSE) /\ [][NextGain]_vars

(* A set of a gain attribute returned an error *)
GainSetFailed ==
    /\ pc = "returned"
    /\ last.op = "set"
    /\ last.kind = "ch"
    /\ last.attr \in GainAttrs
    /\ last.err # SUCCESS

(* C25: whenever a set of a gain attribute (range override, gain offset,   *)
(* offset polarity, gain scaling P or N) returns an error, an unsupported  *)
(* gain code above 3 or a failed bus exchange, the channel's cached        *)
(* calibration parameters and its derived scale and offset are the same as *)
(* before the call.                                                        *)
C25_FailedGainSetKeepsCache ==
    GainSetFailed => desc.ch_data[last.ch] = last.desc0.ch_data[last.ch]

(* The write of the gain register failed on the bus after the gain         *)
(* scaling P had been stored: the cache holds the new P with the scale     *)
(* and offset of the old                                                   *)
C25_CacheAheadOfDevice ==
    /\ GainSetFailed
    /\ last.attr = "CH_GAIN_SCALING_P"
    /\ last.v = 1
    /\ last.err = SpecBusErr
    /\ Len(last.log) = 2
    /\ last.desc0.ch_data[0].p = 0
    /\ last.desc0.ch_data[0].range_override = 1
    /\ last.desc0.ch_data[0].rfb = 1
    /\ desc.ch_data[0].p = 1
    /\ desc.ch_data[0].scale_dec = last.desc0.ch_data[0].scale_dec
    /\ last.reg1 = last.reg0

---------------------------------------------------------------------------
(* The span ad3552r_calc_gain_and_offset divides by, in SpecCal            *)

(* ad3552r_calc_gain_and_offset ran in the set that has just been made: it *)
(* came back, or it trapped on the way                                     *)
CalcRan ==
    /\ pc \in {"returned", "trapped"}
    /\ last.op = "set"
    /\ last.kind = "ch"
    /\ last.attr \in CalAttrs
    /\ last.err \in {SUCCESS, "TRAP"}

(* span = v_max - v_min of the channel last set; the set stores the        *)
(* parameters the range depends on before the engine runs, and the engine  *)
(* changes none of them                                                    *)
CalcSpan ==
    CalcRange(desc.chip_id, desc.ch_data[last.ch])[2]
        - CalcRange(desc.chip_id, desc.ch_data[last.ch])[1]

(* C28: every time the calibration engine runs, in any state reachable     *)
(* through the attribute setters (including range override turned on while *)
(* the feedback resistance is still 0), the span Vmax - Vmin it divides by *)
(* is nonzero.                                                             *)
C28_SpanNonzero == CalcRan => CalcSpan # 0

(* Range override was turned on with the feedback resistance still 0:      *)
(* v_min = v_max = 2500, the engine divided by a span of 0 and the build   *)
(* trapped                                                                 *)
C28_DividedByZero ==
    /\ CalcRan
    /\ last.attr = "CH_RANGE_OVERRIDE"
    /\ last.v = 1
    /\ desc.ch_data[0].range_override = 1
    /\ desc.ch_data[0].rfb = 0
    /\ ad3552r_get_custom_range(desc.ch_data[0]) = <<2500, 2500>>
    /\ CalcSpan = 0
    /\ pc = "trapped"

---------------------------------------------------------------------------
(* Cache specification: transfers with a config override, attribute sets   *)
(* and resets, over a bus on which every exchange succeeds                 *)

(* After ad3552r_init, with and without a reset pin *)
InitCache ==
    /\ desc \in {InitDesc(FALSE), InitDesc(TRUE)}
    /\ dev = DevDefaults
    /\ pc = "idle"
    /\ rst = RstIdle
    /\ last = NoOp

CacheTransfer ==
    \E cfg \in SyncCfgs :
        DoTransfer(TransferData(AD3552R_REG_ADDR_INTERFACE_CONFIG_B, TRUE, 1,
                                cfg),
                   <<0>>, <<>>)

CacheSetDev ==
    \E s \in {[attr |-> "SDO_DRIVE_STRENGTH", v |-> 2],
              [attr |-> "VREF_SELECT", v |-> 1]} :
        DoSetDev(TRUE, s.attr, s.v, <<>>)

CacheSetCh ==
    \E ch \in Channels : DoSetCh(TRUE, "CH_DAC_POWERDOWN", ch, 1, <<>>, NoUb)

CacheReset == DoReset(<<>>)

NextCache ==
    \/ CacheTransfer
    \/ CacheSetDev
    \/ CacheSetCh
    \/ CacheReset
    \/ Return

SpecCache == InitCache /\ [][NextCache]_vars

(* The SPI configuration fields as the registers of the device hold them *)
DevSpiCfg(d) ==
    [addr_asc |->
         field_get(AD3552R_MASK_ADDR_ASCENSION,
                   DevByte(d, AD3552R_REG_ADDR_INTERFACE_CONFIG_A)),
     single_instr |->
         field_get(AD3552R_MASK_SINGLE_INST,
                   DevByte(d, AD3552R_REG_ADDR_INTERFACE_CONFIG_B)),
     stream_mode_length |->
         field_get(AD3552R_MASK_LENGTH,
                   DevByte(d, AD3552R_REG_ADDR_STREAM_MODE)),
     stream_length_keep_value |->
         field_get(AD3552R_MASK_STREAM_LENGTH_KEEP_VALUE,
                   DevByte(d, AD3552R_REG_ADDR_TRANSFER_REGISTER))]

(* No exchange of the call that has returned failed *)
NoBusError ==
    /\ last.err = SUCCESS
    /\ \A k \in 1..Len(last.log) : last.log[k].err = SUCCESS

(* C26: in the absence of bus errors, after any sequence of transfers with *)
(* config overrides, attribute sets and resets, each cached SPI            *)
(* configuration field (ascension, single-instruction, stream length,      *)
(* keep-value) equals the corresponding field held by the device, where a  *)
(* reset returns the device fields to their defaults.                      *)
C26_CacheMatchesDevice ==
    (pc = "returned" /\ NoBusError) => desc.spi_cfg = DevSpiCfg(dev)

(* A reset after a transfer that set every field: the device holds the     *)
(* defaults, the cache what the transfer asked for                         *)
C26_CacheStaleAfterReset ==
    /\ pc = "returned"
    /\ last.op = "reset"
    /\ NoBusError
    /\ last.desc0.spi_cfg.addr_asc = 1
    /\ DevSpiCfg(dev) = ZeroCfg
    /\ desc.spi_cfg = last.desc0.spi_cfg
    /\ desc.spi_cfg # DevSpiCfg(dev)

---------------------------------------------------------------------------
(* Chunk specification: CRC-framed transfers of every length up to         *)
(* MaxChunkLen, in both directions, over a bus on which every exchange     *)
(* succeeds                                                                *)

MaxChunkLen == 4     \* data->len of a transfer, at most

(* Start addresses: byte-wide registers, 16-bit and 24-bit registers of    *)
(* the secondary region, and the last register of the device               *)
ChunkStarts == {3, 28, 44, 61, AD3552R_REG_ADDR_MAX}

ChunkSwitch == DoSetCrc(1, <<>>)

(* A transfer whose config override sets the direction of the addresses *)
ChunkConfigure ==
    \E a \in {0, 1} :
        DoTransfer(TransferData(AD3552R_REG_ADDR_INTERFACE_CONFIG_B, TRUE, 1,
                                AscCfg(a)),
                   <<0>>, <<>>)

ChunkRead ==
    /\ desc.crc_en # 0
    /\ \E addr \in ChunkStarts, n \in 0..MaxChunkLen :
           DoTransfer(TransferData(addr, TRUE, n, NoCfg),
                      [k \in 1..n |-> 0], <<>>)

ChunkWrite ==
    /\ desc.crc_en # 0
    /\ \E addr \in ChunkStarts, n \in 0..MaxChunkLen :
           DoTransfer(TransferData(addr, FALSE, n, NoCfg),
                      [k \in 1..n |-> k], <<>>)

(* After a write the board is power-cycled and initialised again *)
ChunkRestart ==
    /\ pc = "returned"
    /\ last.op = "transfer"
    /\ ~last.data.is_read
    /\ desc' = InitDesc(FALSE)
    /\ dev' = DevDefaults
    /\ pc' = "idle"
    /\ last' = NoOp
    /\ UNCHANGED rst

ChunkReturn == (last.op = "transfer" => last.data.is_read) /\ Return

NextChunk ==
    \/ ChunkSwitch
    \/ ChunkConfigure
    \/ ChunkRead
    \/ ChunkWrite
    \/ ChunkRestart
    \/ ChunkReturn

SpecChunk == InitPin(FALSE) /\ [][NextChunk]_vars

(* _ad3552r_transfer_with_crc has returned success *)
ChunkLoopDone ==
    /\ CrcTransferDone
    /\ last.data.spi_cfg = NoCfg
    /\ last.err = SUCCESS

(* i when the loop was left: the widths of the chunks exchanged *)
ChunkOffset == LogBytes(last.log, Len(last.log))

(* What lies behind the caller's buffer after the call *)
BehindBuffer ==
    SubSeq(last.buf, last.data.len + 1,
           last.data.len + AD3552R_MAX_REG_SIZE)

(* C27: a CRC-framed transfer of byte length n reads from or writes to the *)
(* caller's buffer exactly the n bytes at offsets 0..n-1: for every start  *)
(* address, direction and n (including n = 0 and n that is not a sum of    *)
(* the widths of the registers walked) the chunk loop ends with the byte   *)
(* offset equal to n and never touches the buffer at or past offset n.     *)
C27_ChunksCoverExactlyLen ==
    ChunkLoopDone =>
        /\ ChunkOffset = last.data.len
        /\ BehindBuffer = Guard

(* A read of 1 byte from a 16-bit register: the loop stores 2 bytes, the   *)
(* second behind the caller's buffer                                       *)
C27_ReadPastBuffer ==
    /\ ChunkLoopDone
    /\ last.data.is_read
    /\ last.data.addr = 44
    /\ last.data.len = 1
    /\ ChunkOffset = 2
    /\ BehindBuffer # Guard
===========================================================================
